---- MODULE Spec2Model ----
(***************************************************************************)
(* Token validation core of sls-uma-rs: the Cognito key-set cache          *)
(* (CognitoTokenAuthorizer::get_jwks), the token verifier                  *)
(* (CognitoTokenAuthorizer::validate_token) and the /tokens/validate       *)
(* handler that drives them.                                               *)
(*                                                                         *)
(* Spec        : one authorizer instance shared by concurrent callers of   *)
(*               validate_token (the component as its API allows it).      *)
(* SpecHandler : token_validate_handler, which builds its own authorizer   *)
(*               for every request through get_authorizer.                 *)
(***************************************************************************)
EXTENDS Integers, Sequences, FiniteSets, TLC

\* ---------------------------------------------------------------- bounds
\* concurrent callers (tasks / requests in flight)
NumCallers == 2
\* the clock runs over MaxHours periods of TTL seconds
MaxHours == 2
\* tokens in a stored 'roles' attribute
MaxTokens == 2

\* ------------------------------------------------------ program constants
\* Duration::from_secs(3600) in get_jwks
TTL == 3600
\* jsonwebtoken's Validation::new: leeway of 60 seconds on exp
Leeway == 60

Callers == 1..NumCallers
\* the instance the callers of Spec share; request p of SpecHandler owns instance p
Shared == 0
Auths == {Shared} \cup Callers

\* ----------------------------------------------------------- JSON values
\* serde_json::json!({}): the placeholder installed by the constructor
EmptyObj == [kind |-> "empty", keys |-> {}]
\* a JSON error document, as sent with a non-success status
ErrBody == [kind |-> "error", keys |-> {}]
\* a body that response.json() cannot parse
BadBody == [kind |-> "unparsable", keys |-> {}]
\* {"keys": [...]}: one JWK (kid, n, e) per key id of S
Jwks(S) == [kind |-> "jwks", keys |-> S]

\* the key sets the issuer publishes, one after the other (rotation)
Rotation == << {"k1"}, {"k2"} >>

\* ---------------------------------------------------------------- tokens
\* "https://cognito-idp.{region}.amazonaws.com/{user_pool_id}"
Issuer == "issuer"
PastExp == TTL \div 2
NearExp == TTL - 10
FarExp == 100 * TTL

\* hdr: the header decodes; kid: the header's key id; sig: the key pair the
\* signature was made with; iss, exp, sub: the payload's claims
Tok(hdr, alg, kid, sig, iss, exp, sub) ==
    [hdr |-> hdr, alg |-> alg, kid |-> kid, sig |-> sig, iss |-> iss, exp |-> exp, sub |-> sub]

NoTok == Tok(FALSE, "none", "none", "none", "none", 0, "none")

GoodTokens ==
    { Tok(TRUE, "RS256", "k1", "k1", Issuer, FarExp, "u1"),
      Tok(TRUE, "RS256", "k2", "k2", Issuer, FarExp, "u2") }

\* one fault each
FaultyTokens ==
    { Tok(FALSE, "RS256", "k1", "k1", Issuer, FarExp, "u1"),
      Tok(TRUE, "HS256", "k1", "k1", Issuer, FarExp, "u1"),
      Tok(TRUE, "RS256", "nokid", "k1", Issuer, FarExp, "u1"),
      Tok(TRUE, "RS256", "k1", "forged", Issuer, FarExp, "u1"),
      Tok(TRUE, "RS256", "k1", "k1", "other", FarExp, "u1"),
      Tok(TRUE, "RS256", "k1", "k1", Issuer, PastExp, "u1"),
      Tok(TRUE, "RS256", "k1", "k1", Issuer, NearExp, "u1") }

Tokens == GoodTokens \cup FaultyTokens

\* ------------------------------------------------- strings, as characters
\* "JWT Error: "
S_JwtPrefix ==
    << "J", "W", "T", " ", "E", "r", "r", "o", "r", ":", " " >>

\* "Invalid Token Error: "
S_InvalidTokenPrefix ==
    << "I", "n", "v", "a", "l", "i", "d", " ", "T", "o", "k", "e", "n", " ", "E", "r", "r", "o", "r", ":", " " >>

\* "Reqwest Error: "
S_ReqwestPrefix ==
    << "R", "e", "q", "w", "e", "s", "t", " ", "E", "r", "r", "o", "r", ":", " " >>

\* "Internal server error: "
S_InternalPrefix ==
    << "I", "n", "t", "e", "r", "n", "a", "l", " ", "s", "e", "r", "v", "e", "r", " ", "e", "r", "r", "o", "r", ":", " " >>

\* "Token expired"
S_TokenExpired ==
    << "T", "o", "k", "e", "n", " ", "e", "x", "p", "i", "r", "e", "d" >>

\* "Invalid signature"
S_InvalidSignature ==
    << "I", "n", "v", "a", "l", "i", "d", " ", "s", "i", "g", "n", "a", "t", "u", "r", "e" >>

\* "Invalid token format"
S_InvalidTokenFormat ==
    << "I", "n", "v", "a", "l", "i", "d", " ", "t", "o", "k", "e", "n", " ", "f", "o", "r", "m", "a", "t" >>

\* "Missing token"
S_MissingToken ==
    << "M", "i", "s", "s", "i", "n", "g", " ", "t", "o", "k", "e", "n" >>

\* "expired"
N_expired ==
    << "e", "x", "p", "i", "r", "e", "d" >>

\* "signature"
N_signature ==
    << "s", "i", "g", "n", "a", "t", "u", "r", "e" >>

\* "InvalidToken"
D_InvalidToken ==
    << "I", "n", "v", "a", "l", "i", "d", "T", "o", "k", "e", "n" >>

\* "InvalidAlgorithm"
D_InvalidAlgorithm ==
    << "I", "n", "v", "a", "l", "i", "d", "A", "l", "g", "o", "r", "i", "t", "h", "m" >>

\* "InvalidSignature"
D_InvalidSignature ==
    << "I", "n", "v", "a", "l", "i", "d", "S", "i", "g", "n", "a", "t", "u", "r", "e" >>

\* "ExpiredSignature"
D_ExpiredSignature ==
    << "E", "x", "p", "i", "r", "e", "d", "S", "i", "g", "n", "a", "t", "u", "r", "e" >>

\* "InvalidIssuer"
D_InvalidIssuer ==
    << "I", "n", "v", "a", "l", "i", "d", "I", "s", "s", "u", "e", "r" >>

\* "Missing kid"
D_MissingKid ==
    << "M", "i", "s", "s", "i", "n", "g", " ", "k", "i", "d" >>

\* "Missing keys"
D_MissingKeys ==
    << "M", "i", "s", "s", "i", "n", "g", " ", "k", "e", "y", "s" >>

\* "Key not found"
D_KeyNotFound ==
    << "K", "e", "y", " ", "n", "o", "t", " ", "f", "o", "u", "n", "d" >>

\* "error sending request"
D_SendFailed ==
    << "e", "r", "r", "o", "r", " ", "s", "e", "n", "d", "i", "n", "g", " ", "r", "e", "q", "u", "e", "s", "t" >>

\* "error decoding response body"
D_DecodeFailed ==
    << "e", "r", "r", "o", "r", " ", "d", "e", "c", "o", "d", "i", "n", "g", " ", "r", "e", "s", "p", "o", "n", "s", "e", " ", "b", "o", "d", "y" >>

\* str::contains
Contains(h, n) ==
    \E i \in 1..(Len(h) - Len(n) + 1) : SubSeq(h, i, i + Len(n) - 1) = n

\* ---------------------------------------------------------------- errors
\* Result<Claims, CognitoError>
NoRes == [kind |-> "none", variant |-> "none", detail |-> "none", sub |-> "none"]
Ok(sub) == [kind |-> "Ok", variant |-> "none", detail |-> "none", sub |-> sub]
Err(variant, detail) == [kind |-> "Err", variant |-> variant, detail |-> detail, sub |-> "none"]

\* Display of the wrapped error: jsonwebtoken prints its ErrorKind's name,
\* InvalidTokenError carries the message it was built with
DetailText(d) ==
    CASE d = "InvalidToken" -> D_InvalidToken
      [] d = "InvalidAlgorithm" -> D_InvalidAlgorithm
      [] d = "InvalidSignature" -> D_InvalidSignature
      [] d = "ExpiredSignature" -> D_ExpiredSignature
      [] d = "InvalidIssuer" -> D_InvalidIssuer
      [] d = "Missing kid" -> D_MissingKid
      [] d = "Missing keys" -> D_MissingKeys
      [] d = "Key not found" -> D_KeyNotFound
      [] d = "send" -> D_SendFailed
      [] d = "decode" -> D_DecodeFailed

\* CognitoError's Display (#[error("...: {0}")])
ErrorText(e) ==
    CASE e.variant = "JwtError" -> S_JwtPrefix \o DetailText(e.detail)
      [] e.variant = "InvalidTokenError" -> S_InvalidTokenPrefix \o DetailText(e.detail)
      [] e.variant = "ReqwestError" -> S_ReqwestPrefix \o DetailText(e.detail)

\* LambdaError
LErr(variant, arg) == [variant |-> variant, arg |-> arg]

\* LambdaError's Display, for the variants the handlers build
LambdaText(le) ==
    CASE le.variant = "TokenExpired" -> S_TokenExpired
      [] le.variant = "InvalidSignature" -> S_InvalidSignature
      [] le.variant = "InvalidToken" -> S_InvalidTokenFormat
      [] le.variant = "MissingToken" -> S_MissingToken
      [] le.variant = "InternalError" -> S_InternalPrefix \o le.arg
      [] le.variant = "InvalidEmail" -> <<"I", "n", "v", "a", "l", "i", "d", " ", "e", "m", "a", "i", "l", " ", "f", "o", "r", "m", "a", "t">>
      [] le.variant = "UserNotFound" -> <<"U", "s", "e", "r", " ", "n", "o", "t", " ", "f", "o", "u", "n", "d">>
      [] le.variant = "UserAlreadyExists" -> <<"U", "s", "e", "r", " ", "a", "l", "r", "e", "a", "d", "y", " ", "e", "x", "i", "s", "t", "s">>
      [] le.variant = "InsufficientPermissions" -> <<"I", "n", "s", "u", "f", "f", "i", "c", "i", "e", "n", "t", " ", "p", "e", "r", "m", "i", "s", "s", "i", "o", "n", "s">>
      [] le.variant = "OrganizationNotFound" -> <<"O", "r", "g", "a", "n", "i", "z", "a", "t", "i", "o", "n", " ", "n", "o", "t", " ", "f", "o", "u", "n", "d">>
      [] le.variant = "AuthenticationFailed" -> <<"A", "u", "t", "h", "e", "n", "t", "i", "c", "a", "t", "i", "o", "n", " ", "f", "a", "i", "l", "e", "d">>
      [] le.variant = "UserCreationFailed" -> <<"F", "a", "i", "l", "e", "d", " ", "t", "o", " ", "c", "r", "e", "a", "t", "e", " ", "u", "s", "e", "r", ":", " ">> \o le.arg

\* LambdaError::status_code
StatusCode(le) ==
    CASE le.variant \in {"InvalidEmail", "InvalidUsername", "InvalidPassword",
                         "InvalidOrganizationName", "InvalidToken", "InvalidRefreshToken",
                         "MissingBody", "MissingToken", "MissingOrganizationId",
                         "MissingRoles"} -> 400
      [] le.variant \in {"AuthenticationFailed", "TokenExpired", "InvalidSignature"} -> 401
      [] le.variant = "InsufficientPermissions" -> 403
      [] le.variant \in {"UserNotFound", "OrganizationNotFound"} -> 404
      [] le.variant = "UserAlreadyExists" -> 409
      [] le.variant \in {"UserCreationFailed", "UserDeletionFailed", "UserUpdateFailed",
                         "UserRetrievalFailed", "TokenRefreshFailed", "InternalError"} -> 500

\* the handler's translation of a validate_token error
MapError(e) ==
    IF Contains(ErrorText(e), N_expired) THEN LErr("TokenExpired", <<>>)
    ELSE IF Contains(ErrorText(e), N_signature) THEN LErr("InvalidSignature", <<>>)
    ELSE LErr("InternalError", ErrorText(e))

\* the handler's outcome: nothing yet, an HTTP response, or Err(..) handed to
\* the Lambda runtime
NoHttp == [kind |-> "none", status |-> 0, error |-> <<>>, body |-> "none"]
RuntimeError == [kind |-> "runtime_error", status |-> 0, error |-> <<>>, body |-> "none"]
Verified == [kind |-> "verified", status |-> 0, error |-> <<>>, body |-> "none"]
\* the invocation panicked (expect on a missing value)
Panicked == [kind |-> "panic", status |-> 0, error |-> <<>>, body |-> "none"]
\* apigw_response(200, ..) with the serialized response struct as its body
Success == [kind |-> "response", status |-> 200, error |-> <<>>, body |-> "json"]

\* apigw_response(status, Some(text.into()), None): the body is the text
\* itself, not a JSON document
PlainResponse(status) ==
    [kind |-> "response", status |-> status, error |-> <<>>, body |-> "text"]

\* create_error_response: status, and the body a JSON object of the fields
\* "error" (the Display text) and "message"
ErrorResponse(le) ==
    [kind |-> "response", status |-> StatusCode(le), error |-> LambdaText(le),
     body |-> "json_error_message"]

\* Display of CognitoError::AdminCreateUserError, "AdminCreateUserError: {0}"
\* over Display of SdkError, whatever exception the service reported
AdminCreateUserText == <<"A", "d", "m", "i", "n", "C", "r", "e", "a", "t", "e", "U", "s", "e", "r", "E", "r", "r", "o", "r", ":", " ", "s", "e", "r", "v", "i", "c", "e", " ", "e", "r", "r", "o", "r">>

\* ------------------------------------------------------------ verification
\* jsonwebtoken::decode::<Claims>(token, key, validation) with
\* Validation::new(RS256) and set_issuer: algorithm, signature, exp, iss
Decode_AnySignature(t, key, secs) ==
    IF t.alg # "RS256" THEN Err("JwtError", "InvalidAlgorithm")
    ELSE IF t.exp < secs - Leeway THEN Err("JwtError", "ExpiredSignature")
    ELSE IF t.iss # Issuer THEN Err("JwtError", "InvalidIssuer")
    ELSE Ok(t.sub)

Decode(t, key, secs) ==
    IF t.alg # "RS256" THEN Err("JwtError", "InvalidAlgorithm")
    ELSE IF t.sig # key THEN Err("JwtError", "InvalidSignature")
    ELSE IF t.exp < secs - Leeway THEN Err("JwtError", "ExpiredSignature")
    ELSE IF t.iss # Issuer THEN Err("JwtError", "InvalidIssuer")
    ELSE Ok(t.sub)

\* validate_token after get_jwks returned v: header, kid, key lookup, decode
ValidateWith(v, t, secs) ==
    IF ~t.hdr THEN Err("JwtError", "InvalidToken")
    ELSE IF t.kid = "nokid" THEN Err("InvalidTokenError", "Missing kid")
    ELSE IF v.kind # "jwks" THEN Err("InvalidTokenError", "Missing keys")
    ELSE IF t.kid \notin v.keys THEN Err("InvalidTokenError", "Key not found")
    ELSE Decode(t, t.kid, secs)

\* ------------------------------------------------------ permission model
\* bitflags! Permissions: u32
READ == 1
WRITE == 2
CREATE == 4
DELETE == 8
UPDATE == 16
\* the bits of u32 that carry a flag: every value of Permissions lies in 0..AllBits
AllBits == 31

RECURSIVE BitAnd(_, _)
\* a & b
BitAnd(a, b) ==
    IF a = 0 \/ b = 0 THEN 0
    ELSE (a % 2) * (b % 2) + 2 * BitAnd(a \div 2, b \div 2)

RECURSIVE BitOr(_, _)
\* a | b
BitOr(a, b) ==
    IF a = 0 THEN b
    ELSE IF b = 0 THEN a
    ELSE (IF a % 2 = 1 \/ b % 2 = 1 THEN 1 ELSE 0) + 2 * BitOr(a \div 2, b \div 2)

\* enum Role
Roles == {"Admin", "Reader", "Writer"}

\* Role::permissions with Writer's CREATE left out
Role_permissions_NoCreate(r) ==
    CASE r = "Admin" -> BitOr(READ, BitOr(WRITE, BitOr(CREATE, BitOr(DELETE, UPDATE))))
      [] r = "Reader" -> READ
      [] r = "Writer" -> BitOr(READ, WRITE)

\* Role::permissions
Role_permissions(r) ==
    CASE r = "Admin" -> BitOr(READ, BitOr(WRITE, BitOr(CREATE, BitOr(DELETE, UPDATE))))
      [] r = "Reader" -> READ
      [] r = "Writer" -> BitOr(READ, BitOr(WRITE, CREATE))

RECURSIVE User_permissions(_)
\* User::permissions: roles.iter().fold(empty, |acc, role| acc | role.permissions())
User_permissions(S) ==
    IF S = {} THEN 0
    ELSE LET r == CHOOSE x \in S : TRUE
         IN BitOr(User_permissions(S \ {r}), Role_permissions(r))

\* Permissions::contains with "any bit" in place of "all bits"
has_permission_Any(S, x) == BitAnd(User_permissions(S), x) # 0

\* Permissions::contains with equality in place of containment
has_permission_Exact(S, x) == User_permissions(S) = x

\* User::has_permission: self.permissions().contains(permission)
has_permission(S, x) == BitAnd(User_permissions(S), x) = x

\* User::has_role
has_role(S, r) == r \in S

\* User::add_role
add_role(S, r) == IF ~has_role(S, r) THEN S \cup {r} ELSE S

\* User::remove_role that keeps the role
remove_role_Keep(S, r) == S

\* User::remove_role
remove_role(S, r) == S \ {r}

\* Display for Role
S_Admin == <<"A", "d", "m", "i", "n">>
S_Reader == <<"R", "e", "a", "d", "e", "r">>
S_Writer == <<"W", "r", "i", "t", "e", "r">>
Role_to_string(r) ==
    CASE r = "Admin" -> S_Admin
      [] r = "Reader" -> S_Reader
      [] r = "Writer" -> S_Writer

\* the orders in which a HashSet<Role> with the elements of S can be iterated
Orders(S) ==
    {o \in [1..Cardinality(S) -> S] : \A r \in S : \E i \in DOMAIN o : o[i] = r}

RECURSIVE Join(_, _)
\* Vec<String>::join(sep)
Join(parts, sep) ==
    IF Len(parts) = 0 THEN <<>>
    ELSE IF Len(parts) = 1 THEN parts[1]
    ELSE parts[1] \o sep \o Join(Tail(parts), sep)

\* User::join_roles with another separator than from_item splits on
join_roles_Comma(o) == Join([i \in DOMAIN o |-> Role_to_string(o[i])], <<",">>)

\* User::join_roles with the roles iterated in the order o
join_roles(o) == Join([i \in DOMAIN o |-> Role_to_string(o[i])], <<":">>)

RECURSIVE Split(_, _)
\* str::split(c): the pieces between the occurrences of c, empty ones included
Split(s, c) ==
    IF \A i \in DOMAIN s : s[i] # c THEN <<s>>
    ELSE LET k == CHOOSE i \in DOMAIN s : s[i] = c /\ \A j \in 1..(i - 1) : s[j] # c
         IN <<SubSeq(s, 1, k - 1)>> \o Split(SubSeq(s, k + 1, Len(s)), c)

RECURSIVE Trim(_)
\* str::trim
Trim(s) ==
    IF s = <<>> THEN s
    ELSE IF Head(s) = " " THEN Trim(Tail(s))
    ELSE IF s[Len(s)] = " " THEN Trim(SubSeq(s, 1, Len(s) - 1))
    ELSE s

\* the match on role_str.trim() in from_item
ParseRole(s) ==
    CASE Trim(s) = S_Admin -> "Admin"
      [] Trim(s) = S_Reader -> "Reader"
      [] Trim(s) = S_Writer -> "Writer"
      [] OTHER -> "unknown"

\* from_item that skips the tokens it does not know
from_item_roles_Skip(s) ==
    LET parts == Split(s, ":")
    IN [ok |-> TRUE,
        roles |-> {ParseRole(parts[i]) : i \in DOMAIN parts} \ {"unknown"}]

\* User::from_item on the 'roles' attribute: Err("Unknown role: ..") at the
\* first token that is no role, Ok with the set of the roles otherwise
from_item_roles(s) ==
    LET parts == Split(s, ":")
    IN IF \E i \in DOMAIN parts : ParseRole(parts[i]) = "unknown"
       THEN [ok |-> FALSE, roles |-> {}]
       ELSE [ok |-> TRUE, roles |-> {ParseRole(parts[i]) : i \in DOMAIN parts}]

\* what a 'roles' attribute written by another writer of the table can hold:
\* up to MaxTokens tokens, role names and others, joined by ':'
S_admin == <<"a", "d", "m", "i", "n">>
S_Owner == <<"O", "w", "n", "e", "r">>
S_PaddedAdmin == <<" ", "A", "d", "m", "i", "n", " ">>
ForeignTokens == {S_Admin, S_Reader, S_Writer, S_admin, S_Owner, S_PaddedAdmin, <<>>}
ForeignItems ==
    UNION {{Join(ts, <<":">>) : ts \in [1..n -> ForeignTokens]} : n \in 1..MaxTokens}

\* ---------------------------------------------------------------- table
\* the Lambda functions, one warm process each, with its own CacheManager
Procs == {"validate", "get", "login", "delete", "create"}
\* the ids of the principals: the 'sub' of their tokens
UserIds == {"u1", "u2"}
\* the organization they belong to
OrgIds == {"o1"}
\* the names they log in with (their e-mail addresses)
Usernames == {"e1", "e2"}

\* entity::user::User, as far as its id and roles
User(id, rs) == [id |-> id, roles |-> rs]
\* no record, no cache entry: Option::None
NoUser == [id |-> "none", roles |-> {}]
NoUsers == [some |-> FALSE, users |-> {}]
NoHash == <<>>
\* the role sets the records of the table carry
RoleSets == {{"Admin"}, {"Writer"}, {"Reader"}}
\* the role sets of the records the lookups read
LookupRoleSets == {{"Admin"}, {"Reader"}}

\* an entry of the permission cache: the bool, and for which principal and
\* which permission it was computed (id, flag: not stored, kept for the record)
Decision(has, id, flag) == [some |-> TRUE, has |-> has, id |-> id, flag |-> flag]
NoDecision == [some |-> FALSE, has |-> FALSE, id |-> "none", flag |-> 0]
\* Vec<User> of an organization, and no entry
OrgList(S) == [some |-> TRUE, users |-> S]
\* client.calculate_hash(username): HMAC-SHA256 of username and client id
\* under the client secret, Base64
Hash(e) == <<"hmac", e>>

\* what a handler invocation is serving: the function, the principal,
\* organization or user name it is about, and what the cache or the
\* collaborator gave it for that key (user, users, hash)
Req(fn, key, user, users, hash) ==
    [fn |-> fn, key |-> key, user |-> user, users |-> users, hash |-> hash]
NoReq == Req("none", "none", NoUser, NoUsers, NoHash)
ReqUser(fn, key, user) == Req(fn, key, user, NoUsers, NoHash)

(***************************************************************************)
(* The users table, attribute by attribute.  Its key is the pair (id,      *)
(* organization_id).  The display name is written under the attribute      *)
(* "user_name" by create_user and update_user and read from the attribute  *)
(* "name" by User::from_item; an attribute an item does not have is        *)
(* Absent.  The email attribute is copied unchanged by every handler and   *)
(* is left out.                                                            *)
(***************************************************************************)
\* how many items one page of a Scan holds (the 1 MB page of DynamoDB, scaled)
PageItems == 2

\* the ids the identity provider hands out (the "sub" of an account)
SubOrder == <<"s1", "s2", "s3", "s4">>
Subs == {SubOrder[n] : n \in 1..Len(SubOrder)}

OrgNames == {"acme", "bolt"}

\* the ids generate_uuid can return
Uuids == {"g1", "g2"}

Absent == "(absent)"

\* User::new: the struct the handlers build and pass to the repository
User_new(id, name, org, oname, rs) ==
    [id |-> id, name |-> name, organization_id |-> org,
     organization_name |-> oname, roles |-> rs]

NoDraft == [some |-> FALSE]

Draft(user) == [some |-> TRUE, user |-> user]

\* an item of the table
Item(id, org, oname, name, uname, rs) ==
    [id |-> id, organization_id |-> org, organization_name |-> oname,
     name |-> name, user_name |-> uname, roles |-> rs]

\* the tables the handlers can find when a process starts: items another
\* writer has put, which User::from_item can read
Seeds ==
    { {},
      {Item("s1", "g1", "acme", "n1", Absent, {"Admin"})},
      {Item("s1", "g1", "acme", "n1", Absent, {"Admin"}),
       Item("s2", "g1", "acme", "n1", Absent, {"Reader"})},
      {Item("s1", "g1", "acme", "n1", Absent, {"Admin"}),
       Item("s2", "g1", "acme", "n1", Absent, {"Reader"}),
       Item("s3", "g2", "bolt", "n1", Absent, {"Admin"})} }

(***************************************************************************)
(* The CacheManager: five moka caches, each with a time to live.           *)
(***************************************************************************)
CacheNames == {"user", "permission", "hash", "secrets", "org_users"}

CacheKeys == {"k1", "k2"}

CacheValues == {"v1", "v2"}

\* LambdaConfig::default: cache_ttl, hash_cache_ttl, secrets_cache_ttl (s)
CacheTTL == 1800
HashTTL == 3600
SecretsTTL == 3600

\* max_capacity of a cache, scaled to the number of keys: the capacity of
\* the secrets and the organization cache, and the larger one of the others
SmallCapacity == 1
LargeCapacity == 2

\* how far the clock runs, in steps of CacheTTL, until when keys are set,
\* and how many keys are set
MaxHalfHours == 3
MaxSetTime == 1800
MaxTouched == 2

\* Option: None, Some(v)
NoEntry == [some |-> FALSE]

\* an entry and the time of its insert
Entry(v, at) == [some |-> TRUE, v |-> v, at |-> at]

\* history of a key: never set
NoIssue == [some |-> FALSE, vals |-> {}]

\* history of a key: the values set so far, the last set and its time,
\* whether clear_all or an eviction has removed the entry since
Issue(vals, v, at, cleared, evicted) ==
    [some |-> TRUE, vals |-> vals, v |-> v, at |-> at,
     cleared |-> cleared, evicted |-> evicted]

NoOp == [op |-> "none"]

\* ---------------------------------------------------------------- state
VARIABLES
    clock,      \* seconds: Instant::now() and the wall clock
    published,  \* how far the issuer's rotation has come
    cache,      \* jwks_cache of each authorizer: (Value, Instant)
    lock,       \* holders of each jwks_cache's RwLock in write mode
    pc,         \* where each caller is
    auth,       \* the authorizer each caller uses
    now,        \* get_jwks's local `now`
    fetches,    \* GET requests the caller's current call has sent
    resp,       \* what the GET came back with
    tok,        \* validate_token's argument, from where it is first read
    res,        \* validate_token's result
    wait,       \* history: how the fetch that was in flight when the caller arrived ended
    http        \* the handler's outcome

\* the token core's variables
tvars == <<clock, published, cache, lock, pc, auth, now, fetches, resp, tok, res, wait, http>>

VARIABLES
    roles,      \* User::roles of the User at hand
    item,       \* the 'roles' attribute of its record in the table
    call        \* the last operation on it and what it returned

\* the permission model's variables
uvars == <<roles, item, call>>

VARIABLES
    store,             \* the users table: the record of each id, as from_item reads it
    user_cache,        \* CacheManager::user_cache of each process
    permission_cache,  \* CacheManager::permission_cache of each process
    hash_cache,        \* CacheManager::hash_cache of each process
    org_users_cache,   \* CacheManager::org_users_cache of each process
    req,               \* the request each handler invocation serves
    calls              \* the mutations the invocation has asked of provider and table

\* the handlers' variables
evars == <<store, user_cache, permission_cache, hash_cache, org_users_cache, req, calls>>

VARIABLES
    table,      \* the users table: the item of each id, attribute by attribute
    draft,      \* the User a signup, create or update invocation has built
    accounts    \* the ids of the accounts the identity provider holds

\* the variables of the handlers that write the table
svars == <<table, draft, accounts>>

VARIABLES
    secrets_cache,  \* CacheManager::secrets_cache of each process
    kv,             \* the entries of a CacheManager's five caches, with the time of their insert
    issued,         \* history: what has been set for each key of each cache
    got             \* the last operation on the CacheManager and what it returned

\* the CacheManager's own variables
cvars == <<secrets_cache, kv, issued, got>>

vars == <<tvars, uvars, evars, svars, cvars>>

NoValue == [kind |-> "none", keys |-> {}]
NoResp == [kind |-> "none", success |-> FALSE, body |-> NoValue]
NetError == [kind |-> "neterr", success |-> FALSE, body |-> NoValue]
HttpResp(success, body) == [kind |-> "http", success |-> success, body |-> body]

\* what the issuer's JWKS URL serves now
Published == Rotation[published]

\* CognitoTokenAuthorizer::new: the placeholder and the time of construction
NewCache(t) == [jwks |-> EmptyObj, time |-> t]

\* now.duration_since(cache.1) > Duration::from_secs(3600)
StaleGe(n, t) == n - t >= TTL
Stale(n, t) == n - t > TTL

\* *cache = (jwks, now)
Store(c, body, n) == [jwks |-> body, time |-> n]

\* self.jwks_cache.write().await completes when nobody holds the lock
CanAcquireShared(a) == TRUE
CanAcquire(a) == lock[a] = {}

\* what a GET can come back with: a transport error; the published set or
\* garbage with a success status; an error document or garbage otherwise
Responses ==
    {NetError, HttpResp(TRUE, Jwks(Published)), HttpResp(TRUE, BadBody),
     HttpResp(FALSE, ErrBody), HttpResp(FALSE, BadBody)}

\* the callers that arrived during p's fetch learn how it ended
Waited(p, st) ==
    [q \in Callers |->
        IF q = p THEN "none"
        ELSE IF auth[q] = auth[p] /\ wait[q] = "pending" THEN st
        ELSE wait[q]]

\* ---------------------------------------------------------------- clock
\* the instants that matter: the k-th TTL period and up to k seconds past it
TickSec ==
    /\ clock % TTL < clock \div TTL
    /\ clock' = clock + 1
    /\ UNCHANGED <<published, cache, lock, pc, auth, now, fetches, resp, tok, res, wait, http>>
    /\ UNCHANGED <<uvars, evars>>
    /\ UNCHANGED <<svars, cvars>>

TickHour ==
    /\ clock \div TTL < MaxHours
    /\ clock' = (clock \div TTL + 1) * TTL
    /\ UNCHANGED <<published, cache, lock, pc, auth, now, fetches, resp, tok, res, wait, http>>
    /\ UNCHANGED <<uvars, evars>>
    /\ UNCHANGED <<svars, cvars>>

\* the issuer rotates its keys
Rotate ==
    /\ published < Len(Rotation)
    /\ published' = published + 1
    /\ UNCHANGED <<clock, cache, lock, pc, auth, now, fetches, resp, tok, res, wait, http>>
    /\ UNCHANGED <<uvars, evars>>
    /\ UNCHANGED <<svars, cvars>>

\* ------------------------------------------------------- validate_token
\* validate_token(t) returns r: get_jwks's locals and its write guard are gone
FinishRetry(p, t, r) ==
    IF r.detail = "Key not found" /\ fetches[p] < 2
    THEN /\ pc' = [pc EXCEPT ![p] = "fetching"]
         /\ fetches' = [fetches EXCEPT ![p] = @ + 1]
         /\ UNCHANGED <<tok, res, lock, now, resp>>
    ELSE /\ pc' = [pc EXCEPT ![p] = "done"]
         /\ tok' = [tok EXCEPT ![p] = t]
         /\ res' = [res EXCEPT ![p] = r]
         /\ lock' = [lock EXCEPT ![auth[p]] = @ \ {p}]
         /\ now' = [now EXCEPT ![p] = 0]
         /\ resp' = [resp EXCEPT ![p] = NoResp]
         /\ UNCHANGED fetches

Finish(p, t, r) ==
    /\ pc' = [pc EXCEPT ![p] = "done"]
    /\ tok' = [tok EXCEPT ![p] = t]
    /\ res' = [res EXCEPT ![p] = r]
    /\ lock' = [lock EXCEPT ![auth[p]] = @ \ {p}]
    /\ now' = [now EXCEPT ![p] = 0]
    /\ resp' = [resp EXCEPT ![p] = NoResp]
    /\ UNCHANGED fetches

\* a caller invokes validate_token on the shared authorizer; the token is
\* not read before get_jwks has returned
Call(p) ==
    /\ pc[p] = "idle"
    /\ pc' = [pc EXCEPT ![p] = "acquire"]
    /\ wait' = [wait EXCEPT ![p] =
                  IF \E q \in Callers :
                        q # p /\ auth[q] = auth[p] /\ pc[q] \in {"fetching", "received"}
                  THEN "pending" ELSE "none"]
    /\ UNCHANGED <<clock, published, cache, lock, auth, now, fetches, resp, tok, res, http>>
    /\ UNCHANGED <<uvars, evars>>
    /\ UNCHANGED <<svars, cvars>>

\* get_jwks: let mut cache = self.jwks_cache.write().await
Acquire(p) ==
    /\ pc[p] = "acquire"
    /\ CanAcquire(auth[p])
    /\ lock' = [lock EXCEPT ![auth[p]] = @ \cup {p}]
    /\ pc' = [pc EXCEPT ![p] = "locked"]
    /\ UNCHANGED <<clock, published, cache, auth, now, fetches, resp, tok, res, wait, http>>
    /\ UNCHANGED <<uvars, evars>>
    /\ UNCHANGED <<svars, cvars>>

\* get_jwks: let now = Instant::now(); the TTL test; on the stale branch the
\* GET is sent
Check(p) ==
    /\ pc[p] = "locked"
    /\ now' = [now EXCEPT ![p] = clock]
    /\ IF Stale(clock, cache[auth[p]].time)
       THEN /\ pc' = [pc EXCEPT ![p] = "fetching"]
            /\ fetches' = [fetches EXCEPT ![p] = @ + 1]
       ELSE /\ pc' = [pc EXCEPT ![p] = "fresh"]
            /\ UNCHANGED fetches
    /\ UNCHANGED <<clock, published, cache, lock, auth, resp, tok, res, wait, http>>
    /\ UNCHANGED <<uvars, evars>>
    /\ UNCHANGED <<svars, cvars>>

\* get_jwks: Ok(cache.0.clone()) on the fresh branch, then the rest of
\* validate_token on token t
ReturnCached(p, t) ==
    /\ pc[p] = "fresh"
    /\ wait' = [wait EXCEPT ![p] = "none"]
    /\ Finish(p, t, ValidateWith(cache[auth[p]].jwks, t, clock))
    /\ UNCHANGED <<clock, published, cache, auth, http>>
    /\ UNCHANGED <<uvars, evars>>
    /\ UNCHANGED <<svars, cvars>>

\* get_jwks: client.get(url).send().await comes back
Receive(p, r) ==
    /\ pc[p] = "fetching"
    /\ pc' = [pc EXCEPT ![p] = "received"]
    /\ resp' = [resp EXCEPT ![p] = r]
    /\ UNCHANGED <<clock, published, cache, lock, auth, now, fetches, tok, res, wait, http>>
    /\ UNCHANGED <<uvars, evars>>
    /\ UNCHANGED <<svars, cvars>>

\* get_jwks after the GET: `?` on a transport error; the status test builds
\* an HttpError and drops it; response.json(): `?` on a body that does not
\* parse, *cache = (jwks, now) otherwise; then the rest of validate_token
Process(p, t) ==
    /\ pc[p] = "received"
    /\ IF resp[p].kind = "neterr"
       THEN /\ wait' = Waited(p, "failed")
            /\ Finish(p, t, Err("ReqwestError", "send"))
            /\ UNCHANGED cache
       ELSE IF resp[p].body = BadBody
       THEN /\ wait' = Waited(p, "failed")
            /\ Finish(p, t, Err("ReqwestError", "decode"))
            /\ UNCHANGED cache
       ELSE /\ cache' = [cache EXCEPT ![auth[p]] = Store(@, resp[p].body, now[p])]
            /\ wait' = Waited(p, "stored")
            /\ Finish(p, t, ValidateWith(resp[p].body, t, clock))
    /\ UNCHANGED <<clock, published, auth, http>>
    /\ UNCHANGED <<uvars, evars>>
    /\ UNCHANGED <<svars, cvars>>

\* the caller takes the result; it may call again
Return(p) ==
    /\ pc[p] = "done"
    /\ pc' = [pc EXCEPT ![p] = "idle"]
    /\ tok' = [tok EXCEPT ![p] = NoTok]
    /\ fetches' = [fetches EXCEPT ![p] = 0]
    /\ res' = [res EXCEPT ![p] = NoRes]
    /\ UNCHANGED <<clock, published, cache, lock, auth, now, resp, wait, http>>
    /\ UNCHANGED <<uvars, evars>>
    /\ UNCHANGED <<svars, cvars>>

\* ------------------------------------------------ token_validate_handler
RejectReasons == {"nobody", "badjson", "empty", "parts", "secrets"}

\* the request is turned away before an authorizer exists: no body or a body
\* that is not the request's JSON (Err to the runtime), an empty token or one
\* without three parts (400), or get_authorizer fails on the secrets (Err)
HandlerReject(p, why) ==
    /\ pc[p] = "idle"
    /\ pc' = [pc EXCEPT ![p] = "responded"]
    /\ http' = [http EXCEPT ![p] =
                  CASE why = "empty" -> ErrorResponse(LErr("MissingToken", <<>>))
                    [] why = "parts" -> ErrorResponse(LErr("InvalidToken", <<>>))
                    [] OTHER -> RuntimeError]
    /\ UNCHANGED <<clock, published, cache, lock, auth, now, fetches, resp, tok, res, wait>>
    /\ UNCHANGED <<uvars, evars>>
    /\ UNCHANGED <<svars, cvars>>

\* the request passes validate(); get_authorizer builds a new authorizer
\* for it; validate_token(&validate_request.token) starts
HandlerBegin(p) ==
    /\ pc[p] = "idle"
    /\ cache' = [cache EXCEPT ![auth[p]] = NewCache(clock)]
    /\ pc' = [pc EXCEPT ![p] = "acquire"]
    /\ UNCHANGED <<clock, published, lock, auth, now, fetches, resp, tok, res, wait, http>>
    /\ UNCHANGED <<uvars, evars>>
    /\ UNCHANGED <<svars, cvars>>

\* the match on validate_token's result: an error is mapped and answered,
\* claims go on to the principal lookup
HandlerRespond(p) ==
    /\ pc[p] = "done"
    /\ pc' = [pc EXCEPT ![p] = "responded"]
    /\ http' = [http EXCEPT ![p] =
                  IF res[p].kind = "Err" THEN ErrorResponse(MapError(res[p])) ELSE Verified]
    /\ tok' = [tok EXCEPT ![p] = NoTok]
    /\ res' = [res EXCEPT ![p] = NoRes]
    /\ fetches' = [fetches EXCEPT ![p] = 0]
    /\ UNCHANGED <<clock, published, cache, lock, auth, now, resp, wait>>
    /\ UNCHANGED <<uvars, evars>>
    /\ UNCHANGED <<svars, cvars>>

\* the request is over; its authorizer is dropped with it
HandlerEnd(p) ==
    /\ pc[p] = "responded"
    /\ pc' = [pc EXCEPT ![p] = "idle"]
    /\ cache' = [cache EXCEPT ![auth[p]] = NewCache(0)]
    /\ http' = [http EXCEPT ![p] = NoHttp]
    /\ UNCHANGED <<clock, published, lock, auth, now, fetches, resp, tok, res, wait>>
    /\ UNCHANGED <<uvars, evars>>
    /\ UNCHANGED <<svars, cvars>>

\* ------------------------------------------------- permission model: User
\* the call before the last one, kept when the last one undoes or reads back
\* what it did
NoPrev == [op |-> "none", role |-> "none", before |-> {}]
\* a call on the User or its record: the operation, its arguments (role, x),
\* its results (bits, yes, ok) and the role set it found
Called(op, role, x, bits, yes, ok, before, prev) ==
    [op |-> op, role |-> role, x |-> x, bits |-> bits, yes |-> yes, ok |-> ok,
     before |-> before, prev |-> prev]
NoCall == Called("new", "none", 0, 0, FALSE, TRUE, {}, NoPrev)

\* role.permissions()
CallRolePermissions(r) ==
    /\ call' = Called("Role::permissions", r, 0, Role_permissions(r), FALSE, TRUE, roles, NoPrev)
    /\ UNCHANGED <<roles, item>>
    /\ UNCHANGED <<tvars, evars>>
    /\ UNCHANGED <<svars, cvars>>

\* user.permissions()
CallPermissions ==
    /\ call' = Called("permissions", "none", 0, User_permissions(roles), FALSE, TRUE, roles, NoPrev)
    /\ UNCHANGED <<roles, item>>
    /\ UNCHANGED <<tvars, evars>>
    /\ UNCHANGED <<svars, cvars>>

\* user.has_permission(x)
CallHasPermission(x) ==
    /\ call' = Called("has_permission", "none", x, 0, has_permission(roles, x), TRUE, roles, NoPrev)
    /\ UNCHANGED <<roles, item>>
    /\ UNCHANGED <<tvars, evars>>
    /\ UNCHANGED <<svars, cvars>>

\* user.add_role(r)
CallAddRole(r) ==
    /\ roles' = add_role(roles, r)
    /\ call' = Called("add_role", r, 0, 0, FALSE, TRUE, roles, NoPrev)
    /\ UNCHANGED item
    /\ UNCHANGED <<tvars, evars>>
    /\ UNCHANGED <<svars, cvars>>

\* user.remove_role(r)
CallRemoveRole(r) ==
    /\ roles' = remove_role(roles, r)
    /\ call' = Called("remove_role", r, 0, 0, FALSE, TRUE, roles,
                      IF call.op = "add_role"
                      THEN [op |-> call.op, role |-> call.role, before |-> call.before]
                      ELSE NoPrev)
    /\ UNCHANGED item
    /\ UNCHANGED <<tvars, evars>>
    /\ UNCHANGED <<svars, cvars>>

\* create_user / update_user write the record: ("roles", &user.join_roles()),
\* the HashSet iterated in some order o
CallJoinRoles(o) ==
    /\ item' = join_roles(o)
    /\ call' = Called("join_roles", "none", 0, 0, FALSE, TRUE, roles, NoPrev)
    /\ UNCHANGED roles
    /\ UNCHANGED <<tvars, evars>>
    /\ UNCHANGED <<svars, cvars>>

\* another writer of the table puts the attribute
PutItem(s) ==
    /\ item' = s
    /\ call' = Called("put_item", "none", 0, 0, FALSE, TRUE, roles, NoPrev)
    /\ UNCHANGED roles
    /\ UNCHANGED <<tvars, evars>>
    /\ UNCHANGED <<svars, cvars>>

\* User::from_item(record): Ok(User) with the roles read, or Err and no User
CallFromItem ==
    LET r == from_item_roles(item)
    IN /\ roles' = IF r.ok THEN r.roles ELSE roles
       /\ call' = Called("from_item", "none", 0, 0, FALSE, r.ok, roles,
                         IF call.op = "join_roles"
                         THEN [op |-> call.op, role |-> call.role, before |-> call.before]
                         ELSE NoPrev)
       /\ UNCHANGED item
       /\ UNCHANGED <<tvars, evars>>
       /\ UNCHANGED <<svars, cvars>>

\* ------------------------------------------------------ users table
\* what a query of the table can come to: "items" (Some(items)), "no_items"
\* (items: None) or "error" (the query or from_item fails)
QueryOutcomes == {"items", "no_items", "error"}
Found(user) == [kind |-> "Ok", user |-> user]
Failed(kind) == [kind |-> kind, user |-> NoUser]

\* UserRepositoryImpl::get_user_by_id: Err on a failed query and on
\* items: None; items.first().expect(..) panics when no item matches
get_user_by_id(u, out) ==
    IF out = "error" THEN Failed("Err")
    ELSE IF store[u] # NoUser THEN Found(store[u])
    ELSE IF out = "items" THEN Failed("Panic")
    ELSE Failed("Err")

\* another writer of the table (the update function, a console) puts the
\* record of u with the roles rs
StoreWrite(u, rs) ==
    /\ store[u] # User(u, rs)
    /\ store' = [store EXCEPT ![u] = User(u, rs)]
    /\ UNCHANGED <<user_cache, permission_cache, hash_cache, org_users_cache, req, calls>>
    /\ UNCHANGED <<tvars, uvars>>
    /\ UNCHANGED <<svars, cvars>>

\* the invocation is over
RequestEnd(p) ==
    /\ pc[p] = "responded"
    /\ pc' = [pc EXCEPT ![p] = "idle"]
    /\ http' = [http EXCEPT ![p] = NoHttp]
    /\ res' = [res EXCEPT ![p] = NoRes]
    /\ req' = [req EXCEPT ![p] = NoReq]
    /\ calls' = [calls EXCEPT ![p] = {}]
    /\ UNCHANGED <<store, user_cache, permission_cache, hash_cache, org_users_cache>>
    /\ UNCHANGED <<clock, published, cache, lock, auth, now, fetches, resp, tok, wait>>
    /\ UNCHANGED uvars
    /\ UNCHANGED <<svars, cvars>>

\* ------------------------------------------------- permission decisions
\* a warm process serves one invocation at a time: invocation slot 1 is the
\* delete function's process, the others the create function's
Function(p) == IF p = 1 THEN "delete" ELSE "create"

\* every function asking for DELETE
Asked_Delete(fn) == DELETE

\* the permission each function asks for
Asked(fn) == IF fn = "delete" THEN DELETE ELSE CREATE

\* check_delete_permission_with_cache / check_create_permission_with_cache
\* (user, user_id) on the process's permission cache c, asking for x: the
\* decision and the cache afterwards
check_permission_with_cache(c, user, user_id, x) ==
    IF c[user_id].some
    THEN [has |-> c[user_id].has, hit |-> TRUE, cache |-> c]
    ELSE LET h == has_permission(user.roles, x)
         IN [has |-> h, hit |-> FALSE, cache |-> [c EXCEPT ![user_id] = Decision(h, user.id, x)]]

\* an entry of a permission cache is evicted: its age passed the TTL, or the
\* cache is at capacity
EvictPermission(m, u) ==
    /\ permission_cache[m][u].some
    /\ permission_cache' = [permission_cache EXCEPT ![m][u] = NoDecision]
    /\ UNCHANGED <<store, user_cache, hash_cache, org_users_cache, req, calls>>
    /\ UNCHANGED <<tvars, uvars>>
    /\ UNCHANGED <<svars, cvars>>

\* delete_user_handler / create_user_handler up to the permission check: the
\* ids from the headers, the body and its validation (create), the clients,
\* get_user_by_id
PermissionLookup(p, u, out) ==
    /\ pc[p] = "idle"
    /\ out \in {"body", "invalid"} => Function(p) = "create"
    /\ LET r == get_user_by_id(u, out)
           fn == Function(p)
       IN IF out = "invalid"
          THEN /\ pc' = [pc EXCEPT ![p] = "responded"]
               /\ http' = [http EXCEPT ![p] = ErrorResponse(LErr("InvalidEmail", <<>>))]
               /\ req' = [req EXCEPT ![p] = ReqUser(fn, u, NoUser)]
          ELSE IF out \in {"body", "clients"} \/ r.kind = "Err"
          THEN /\ pc' = [pc EXCEPT ![p] = "responded"]
               /\ http' = [http EXCEPT ![p] = RuntimeError]
               /\ req' = [req EXCEPT ![p] = ReqUser(fn, u, NoUser)]
          ELSE IF r.kind = "Panic"
          THEN /\ pc' = [pc EXCEPT ![p] = "responded"]
               /\ http' = [http EXCEPT ![p] = Panicked]
               /\ req' = [req EXCEPT ![p] = ReqUser(fn, u, NoUser)]
          ELSE /\ pc' = [pc EXCEPT ![p] = "check"]
               /\ req' = [req EXCEPT ![p] = ReqUser(fn, u, r.user)]
               /\ UNCHANGED http
    /\ UNCHANGED <<store, user_cache, permission_cache, hash_cache, org_users_cache, calls>>
    /\ UNCHANGED <<clock, published, cache, lock, auth, now, fetches, resp, tok, res, wait>>
    /\ UNCHANGED uvars
    /\ UNCHANGED <<svars, cvars>>

\* the permission check of the delete or create function and the branch on
\* it: create_error_response(InsufficientPermissions), or on to the provider
PermissionCheck(p) ==
    /\ pc[p] = "check"
    /\ LET m == req[p].fn
           d == check_permission_with_cache(permission_cache[m], req[p].user, req[p].key, Asked(m))
       IN /\ permission_cache' = [permission_cache EXCEPT ![m] = d.cache]
          /\ IF d.has
             THEN /\ pc' = [pc EXCEPT ![p] = "provider"]
                  /\ UNCHANGED http
             ELSE /\ pc' = [pc EXCEPT ![p] = "responded"]
                  /\ http' = [http EXCEPT ![p] = ErrorResponse(LErr("InsufficientPermissions", <<>>))]
          /\ req' = [req EXCEPT ![p] = ReqUser(m, req[p].key, NoUser)]
          /\ calls' = [calls EXCEPT ![p] = IF d.hit THEN @ ELSE @ \cup {"has_permission"}]
    /\ UNCHANGED <<store, user_cache, hash_cache, org_users_cache>>
    /\ UNCHANGED <<clock, published, cache, lock, auth, now, fetches, resp, tok, res, wait>>
    /\ UNCHANGED uvars
    /\ UNCHANGED <<svars, cvars>>

\* delete_user_handler: cognito_client.admin_delete_user(user_id)
DeleteProvider(p, ok) ==
    /\ pc[p] = "provider" /\ req[p].fn = "delete"
    /\ calls' = [calls EXCEPT ![p] = @ \cup {"admin_delete_user"}]
    /\ IF ok
       THEN /\ pc' = [pc EXCEPT ![p] = "table"]
            /\ UNCHANGED http
       ELSE /\ pc' = [pc EXCEPT ![p] = "responded"]
            /\ http' = [http EXCEPT ![p] = RuntimeError]
    /\ UNCHANGED <<store, user_cache, permission_cache, hash_cache, org_users_cache, req>>
    /\ UNCHANGED <<clock, published, cache, lock, auth, now, fetches, resp, tok, res, wait>>
    /\ UNCHANGED uvars
    /\ UNCHANGED <<svars, cvars>>

\* delete_user_handler: repository.delete_user_by_id(user_id, organization_id)
\* and the 200 response
DeleteTable(p, ok) ==
    /\ pc[p] = "table" /\ req[p].fn = "delete"
    /\ calls' = [calls EXCEPT ![p] = @ \cup {"delete_user_by_id"}]
    /\ pc' = [pc EXCEPT ![p] = "responded"]
    /\ IF ok
       THEN /\ store' = [store EXCEPT ![req[p].key] = NoUser]
            /\ http' = [http EXCEPT ![p] = Success]
       ELSE /\ http' = [http EXCEPT ![p] = RuntimeError]
            /\ UNCHANGED store
    /\ UNCHANGED <<user_cache, permission_cache, hash_cache, org_users_cache, req>>
    /\ UNCHANGED <<clock, published, cache, lock, auth, now, fetches, resp, tok, res, wait>>
    /\ UNCHANGED uvars
    /\ UNCHANGED <<svars, cvars>>

\* create_user_handler: generate_password, admin_create_user,
\* admin_set_user_password, email_verified and the new user's sub
CreateProvider(p, out) ==
    /\ pc[p] = "provider" /\ req[p].fn = "create"
    /\ calls' = [calls EXCEPT ![p] = IF out = "password" THEN @ ELSE @ \cup {"admin_create_user"}]
    /\ CASE out = "ok" ->
              /\ pc' = [pc EXCEPT ![p] = "table"]
              /\ UNCHANGED http
         [] out = "exists" ->
              /\ pc' = [pc EXCEPT ![p] = "responded"]
              /\ http' = [http EXCEPT ![p] = ErrorResponse(LErr("UserCreationFailed", AdminCreateUserText))]
         [] out = "refused" ->
              /\ pc' = [pc EXCEPT ![p] = "responded"]
              /\ http' = [http EXCEPT ![p] = ErrorResponse(LErr("UserCreationFailed", AdminCreateUserText))]
         [] OTHER ->
              /\ pc' = [pc EXCEPT ![p] = "responded"]
              /\ http' = [http EXCEPT ![p] = RuntimeError]
    /\ UNCHANGED <<store, user_cache, permission_cache, hash_cache, org_users_cache, req>>
    /\ UNCHANGED <<clock, published, cache, lock, auth, now, fetches, resp, tok, res, wait>>
    /\ UNCHANGED uvars
    /\ UNCHANGED <<svars, cvars>>

\* create_user_handler: repository.create_user(new_user) and the 200
\* response; the record's id is the provider's new sub, an id of its own
CreateTable(p, ok) ==
    /\ pc[p] = "table" /\ req[p].fn = "create"
    /\ calls' = [calls EXCEPT ![p] = @ \cup {"create_user"}]
    /\ pc' = [pc EXCEPT ![p] = "responded"]
    /\ http' = [http EXCEPT ![p] = IF ok THEN Success ELSE RuntimeError]
    /\ UNCHANGED <<store, user_cache, permission_cache, hash_cache, org_users_cache, req>>
    /\ UNCHANGED <<clock, published, cache, lock, auth, now, fetches, resp, tok, res, wait>>
    /\ UNCHANGED uvars
    /\ UNCHANGED <<svars, cvars>>

\* ---------------------------------------------------------- cache-aside
\* invocation slot 1 is the validate function's process; the others are
\* taken in turn by the get function's and the login function's process
Serves(p) == IF p = 1 THEN {"validate"} ELSE {"get_user", "get_users", "login"}

\* the three processes share nothing but the table, which none of them
\* writes: their invocations are taken one at a time
Quiet(p) == \A q \in Callers \ {p} : pc[q] = "idle"

\* the process a handler runs in: get_user_handler and get_users_handler are
\* routes of the get function
CacheOf(fn) == IF fn \in {"get_user", "get_users"} THEN "get" ELSE fn

\* what get_jwks of the request's own authorizer can return: the placeholder
\* of the constructor, the body of a GET (a published set, an error document)
\* or the error of a GET
JwksResults ==
    {[ok |-> TRUE, v |-> EmptyObj, detail |-> "none"], [ok |-> TRUE, v |-> ErrBody, detail |-> "none"]}
    \cup {[ok |-> TRUE, v |-> Jwks(Rotation[i]), detail |-> "none"] : i \in DOMAIN Rotation}
    \cup {[ok |-> FALSE, v |-> EmptyObj, detail |-> d] : d \in {"send", "decode"}}

\* the instants at which a token is decoded
Times == {h * TTL : h \in 0..MaxHours}

\* validate_token on token t when get_jwks comes to g, at the instant secs
validate_token(g, t, secs) ==
    IF g.ok THEN ValidateWith(g.v, t, secs) ELSE Err("ReqwestError", g.detail)

\* token_validate_handler from the authorizer to the match on
\* validate_token's result: an error is mapped and answered, claims go on to
\* get_user_with_cache(&claims.sub, ..)
ValidateVerify(p, t, g, secs) ==
    /\ pc[p] = "idle" /\ "validate" \in Serves(p) /\ Quiet(p)
    /\ LET r == validate_token(g, t, secs)
       IN /\ res' = [res EXCEPT ![p] = r]
          /\ IF r.kind = "Ok"
             THEN /\ pc' = [pc EXCEPT ![p] = "resolve"]
                  /\ req' = [req EXCEPT ![p] = ReqUser("validate", r.sub, NoUser)]
                  /\ UNCHANGED http
             ELSE /\ pc' = [pc EXCEPT ![p] = "responded"]
                  /\ http' = [http EXCEPT ![p] = ErrorResponse(MapError(r))]
                  /\ UNCHANGED req
    /\ UNCHANGED <<store, user_cache, permission_cache, hash_cache, org_users_cache, calls>>
    /\ UNCHANGED <<clock, published, cache, lock, auth, now, fetches, resp, tok, wait>>
    /\ UNCHANGED uvars
    /\ UNCHANGED <<svars, cvars>>

\* get_user_handler / get_users_handler: the ids of the request's headers;
\* expect(..) panics when a header is missing
GetBegin(p, fn, key, ok) ==
    /\ pc[p] = "idle" /\ fn \in Serves(p) \cap {"get_user", "get_users"} /\ Quiet(p)
    /\ key \in (IF fn = "get_user" THEN UserIds ELSE OrgIds)
    /\ req' = [req EXCEPT ![p] = ReqUser(fn, key, NoUser)]
    /\ IF ok
       THEN /\ pc' = [pc EXCEPT ![p] = "resolve"]
            /\ UNCHANGED http
       ELSE /\ pc' = [pc EXCEPT ![p] = "responded"]
            /\ http' = [http EXCEPT ![p] = Panicked]
    /\ UNCHANGED <<store, user_cache, permission_cache, hash_cache, org_users_cache, calls>>
    /\ UNCHANGED <<clock, published, cache, lock, auth, now, fetches, resp, tok, res, wait>>
    /\ UNCHANGED uvars
    /\ UNCHANGED <<svars, cvars>>

\* login_handler up to calculate_hash_with_cache: the body, its validation,
\* the clients.  CognitoClientManager::get_client fetches the secrets from
\* the secrets endpoint and neither reads nor writes the secrets cache
LoginBegin(p, e, out) ==
    /\ pc[p] = "idle"
    /\ req' = [req EXCEPT ![p] = ReqUser("login", e, NoUser)]
    /\ calls' = [calls EXCEPT ![p] =
                    IF out \in {"ok", "clients"} THEN @ \cup {"get_secret_value"} ELSE @]
    /\ CASE out = "ok" ->
              /\ pc' = [pc EXCEPT ![p] = "resolve"]
              /\ UNCHANGED http
         [] out = "invalid" ->
              /\ pc' = [pc EXCEPT ![p] = "responded"]
              /\ http' = [http EXCEPT ![p] = ErrorResponse(LErr("InvalidEmail", <<>>))]
         [] OTHER ->
              /\ pc' = [pc EXCEPT ![p] = "responded"]
              /\ http' = [http EXCEPT ![p] = RuntimeError]
    /\ UNCHANGED <<store, user_cache, permission_cache, hash_cache, org_users_cache>>
    /\ UNCHANGED <<clock, published, cache, lock, auth, now, fetches, resp, tok, res, wait>>
    /\ UNCHANGED uvars
    /\ UNCHANGED <<svars, cvars>>

\* the cache is asked first: get_user, get_org_users, get_hash. A hit is the
\* operation's value; a miss goes on to the collaborator
CacheGet(p) ==
    /\ pc[p] = "resolve"
    /\ LET fn == req[p].fn
           m == CacheOf(fn)
           k == req[p].key
       IN CASE fn \in {"validate", "get_user"} ->
                 IF user_cache[m][k] # NoUser
                 THEN /\ req' = [req EXCEPT ![p].user = user_cache[m][k]]
                      /\ pc' = [pc EXCEPT ![p] = "responded"]
                      /\ http' = [http EXCEPT ![p] = Success]
                 ELSE /\ pc' = [pc EXCEPT ![p] = "lookup"]
                      /\ UNCHANGED <<req, http>>
            [] fn = "get_users" ->
                 IF org_users_cache[m][k].some
                 THEN /\ req' = [req EXCEPT ![p].users = org_users_cache[m][k]]
                      /\ pc' = [pc EXCEPT ![p] = "responded"]
                      /\ http' = [http EXCEPT ![p] = Success]
                 ELSE /\ pc' = [pc EXCEPT ![p] = "lookup"]
                      /\ UNCHANGED <<req, http>>
            [] fn = "login" ->
                 IF hash_cache[m][k] # NoHash
                 THEN /\ req' = [req EXCEPT ![p].hash = hash_cache[m][k]]
                      /\ pc' = [pc EXCEPT ![p] = "login"]
                      /\ UNCHANGED http
                 ELSE /\ pc' = [pc EXCEPT ![p] = "lookup"]
                      /\ UNCHANGED <<req, http>>
    /\ UNCHANGED <<store, user_cache, permission_cache, hash_cache, org_users_cache, calls>>
    /\ UNCHANGED <<clock, published, cache, lock, auth, now, fetches, resp, tok, res, wait>>
    /\ UNCHANGED uvars
    /\ UNCHANGED <<svars, cvars>>

\* UserRepositoryImpl::get_users_by_organization_id: Err on a failed query,
\* on items: None and on a record from_item refuses
get_users_by_organization_id(o, out) ==
    IF out = "items"
    THEN [kind |-> "Ok", users |-> OrgList({store[u] : u \in {v \in UserIds : store[v] # NoUser}})]
    ELSE [kind |-> "Err", users |-> NoUsers]

\* CognitoClient::calculate_hash: Err when the MAC refuses the secret
calculate_hash(e, out) ==
    IF out = "items" THEN [kind |-> "Ok", hash |-> Hash(e)] ELSE [kind |-> "Err", hash |-> NoHash]

\* set_user with a default User when the lookup failed
set_user_on_Ok_Default(c, k, r) ==
    [c EXCEPT ![k] = IF r.kind = "Ok" THEN r.user ELSE User(k, {})]

\* get_user_with_cache / get_user_handler after get_user_by_id: set_user is
\* reached on Ok only (`?`, the Err arm's return)
set_user_on_Ok(c, k, r) == IF r.kind = "Ok" THEN [c EXCEPT ![k] = r.user] ELSE c

\* the write to the cache after the collaborator's call: set_org_users and
\* set_hash are reached on Ok only
write_back(c, k, ok, v) == IF ok THEN [c EXCEPT ![k] = v] ELSE c

\* every lookup answered 200
LookupResponse_Lenient(fn, kind) == Success

\* the handler's response to the principal lookup: 200 with the principal
\* or the list; validate hands the error to the runtime, get_user answers
\* UserNotFound, get_users OrganizationNotFound
LookupResponse(fn, kind) ==
    CASE kind = "Ok" -> Success
      [] kind = "Panic" -> Panicked
      [] kind = "Client" -> RuntimeError
      [] fn = "get_user" -> ErrorResponse(LErr("UserNotFound", <<>>))
      [] fn = "get_users" -> ErrorResponse(LErr("OrganizationNotFound", <<>>))
      [] OTHER -> RuntimeError

\* the miss branch of get_user_with_cache and get_user_handler: the client,
\* get_user_by_id, set_user on Ok, the response
UserLookup(p, out) ==
    /\ pc[p] = "lookup" /\ req[p].fn \in {"validate", "get_user"}
    /\ LET fn == req[p].fn
           m == CacheOf(fn)
           k == req[p].key
           r == IF out = "clients" THEN Failed("Client") ELSE get_user_by_id(k, out)
       IN /\ user_cache' = [user_cache EXCEPT ![m] = set_user_on_Ok(@, k, r)]
          /\ req' = [req EXCEPT ![p].user = r.user]
          /\ http' = [http EXCEPT ![p] = LookupResponse(fn, r.kind)]
          /\ calls' = [calls EXCEPT ![p] = IF out = "clients" THEN @ ELSE @ \cup {"get_user_by_id"}]
    /\ pc' = [pc EXCEPT ![p] = "responded"]
    /\ UNCHANGED <<store, permission_cache, hash_cache, org_users_cache>>
    /\ UNCHANGED <<clock, published, cache, lock, auth, now, fetches, resp, tok, res, wait>>
    /\ UNCHANGED uvars
    /\ UNCHANGED <<svars, cvars>>

\* the miss branch of get_users_handler: the client,
\* get_users_by_organization_id, set_org_users on Ok, the response
OrgLookup(p, out) ==
    /\ pc[p] = "lookup" /\ req[p].fn = "get_users"
    /\ LET m == CacheOf("get_users")
           k == req[p].key
           r == get_users_by_organization_id(k, out)
           kind == IF out = "clients" THEN "Client" ELSE r.kind
       IN /\ org_users_cache' = [org_users_cache EXCEPT ![m] = write_back(@, k, r.kind = "Ok", r.users)]
          /\ req' = [req EXCEPT ![p].users = r.users]
          /\ http' = [http EXCEPT ![p] = LookupResponse("get_users", kind)]
          /\ calls' = [calls EXCEPT ![p] =
                         IF out = "clients" THEN @ ELSE @ \cup {"get_users_by_organization_id"}]
    /\ pc' = [pc EXCEPT ![p] = "responded"]
    /\ UNCHANGED <<store, user_cache, permission_cache, hash_cache>>
    /\ UNCHANGED <<clock, published, cache, lock, auth, now, fetches, resp, tok, res, wait>>
    /\ UNCHANGED uvars
    /\ UNCHANGED <<svars, cvars>>

\* the miss branch of calculate_hash_with_cache: calculate_hash, set_hash on
\* Ok; an error goes to the runtime through the handler's `?`
HashCompute(p, out) ==
    /\ pc[p] = "lookup" /\ req[p].fn = "login"
    /\ LET m == CacheOf("login")
           k == req[p].key
           r == calculate_hash(k, out)
       IN /\ hash_cache' = [hash_cache EXCEPT ![m] = write_back(@, k, r.kind = "Ok", r.hash)]
          /\ req' = [req EXCEPT ![p].hash = r.hash]
          /\ IF r.kind = "Ok"
             THEN /\ pc' = [pc EXCEPT ![p] = "login"]
                  /\ UNCHANGED http
             ELSE /\ pc' = [pc EXCEPT ![p] = "responded"]
                  /\ http' = [http EXCEPT ![p] = RuntimeError]
    /\ calls' = [calls EXCEPT ![p] = @ \cup {"calculate_hash"}]
    /\ UNCHANGED <<store, user_cache, permission_cache, org_users_cache>>
    /\ UNCHANGED <<clock, published, cache, lock, auth, now, fetches, resp, tok, res, wait>>
    /\ UNCHANGED uvars
    /\ UNCHANGED <<svars, cvars>>

\* Display of CognitoError::InitiateAuthError, "InitiateAuthError: {0}" over
\* Display of SdkError, which names the kind of failure ("service error")
\* and not the exception the service reported
CognitoErrorText(exception) ==
    <<"I", "n", "i", "t", "i", "a", "t", "e", "A", "u", "t", "h", "E", "r", "r", "o", "r", ":", " ">> \o <<"s", "e", "r", "v", "i", "c", "e", " ", "e", "r", "r", "o", "r">>

\* the LambdaError login_handler builds from a failed user_login
LoginError(text) ==
    IF Contains(text, <<"N", "o", "t", "A", "u", "t", "h", "o", "r", "i", "z", "e", "d", "E", "x", "c", "e", "p", "t", "i", "o", "n">>)
    THEN LErr("AuthenticationFailed", <<>>)
    ELSE IF Contains(text, <<"U", "s", "e", "r", "N", "o", "t", "F", "o", "u", "n", "d", "E", "x", "c", "e", "p", "t", "i", "o", "n">>)
    THEN LErr("UserNotFound", <<>>)
    ELSE LErr("InternalError", text)

\* login_handler after the hash: user_login, the id token's sub, the
\* principal's record, the response.  calls records the exception the
\* provider reported next to the call
LoginAuth(p, out) ==
    /\ pc[p] = "login"
    /\ pc' = [pc EXCEPT ![p] = "responded"]
    /\ calls' = [calls EXCEPT ![p] = @ \cup {"user_login"} \cup
                    CASE out \in {"ok", "no_record"} -> {"get_user_by_id"}
                      [] out = "denied" -> {"NotAuthorizedException"}
                      [] out = "unknown" -> {"UserNotFoundException"}
                      [] OTHER -> {}]
    /\ http' = [http EXCEPT ![p] =
                  CASE out = "ok" -> Success
                    [] out = "no_record" -> RuntimeError
                    \* "Failed to authenticate"
                    [] out = "none" -> ErrorResponse(LErr("InternalError", <<"F", "a", "i", "l", "e", "d", " ", "t", "o", " ", "a", "u", "t", "h", "e", "n", "t", "i", "c", "a", "t", "e">>))
                    [] out = "denied" -> ErrorResponse(LoginError(CognitoErrorText(<<"N", "o", "t", "A", "u", "t", "h", "o", "r", "i", "z", "e", "d", "E", "x", "c", "e", "p", "t", "i", "o", "n">>)))
                    [] out = "unknown" -> ErrorResponse(LoginError(CognitoErrorText(<<"U", "s", "e", "r", "N", "o", "t", "F", "o", "u", "n", "d", "E", "x", "c", "e", "p", "t", "i", "o", "n">>)))
                    [] out = "other" -> ErrorResponse(LoginError(CognitoErrorText(<<"T", "o", "o", "M", "a", "n", "y", "R", "e", "q", "u", "e", "s", "t", "s", "E", "x", "c", "e", "p", "t", "i", "o", "n">>)))]
    /\ UNCHANGED <<store, user_cache, permission_cache, hash_cache, org_users_cache, req>>
    /\ UNCHANGED <<clock, published, cache, lock, auth, now, fetches, resp, tok, res, wait>>
    /\ UNCHANGED uvars
    /\ UNCHANGED <<svars, cvars>>

\* an entry of the user, organization or hash cache is evicted
EvictEntry(m, which, k) ==
    /\ CASE which = "user" ->
              /\ k \in UserIds /\ user_cache[m][k] # NoUser
              /\ user_cache' = [user_cache EXCEPT ![m][k] = NoUser]
              /\ UNCHANGED <<hash_cache, org_users_cache>>
         [] which = "org" ->
              /\ k \in OrgIds /\ org_users_cache[m][k].some
              /\ org_users_cache' = [org_users_cache EXCEPT ![m][k] = NoUsers]
              /\ UNCHANGED <<user_cache, hash_cache>>
         [] which = "hash" ->
              /\ k \in Usernames /\ hash_cache[m][k] # NoHash
              /\ hash_cache' = [hash_cache EXCEPT ![m][k] = NoHash]
              /\ UNCHANGED <<user_cache, org_users_cache>>
    /\ UNCHANGED <<store, permission_cache, req, calls>>
    /\ UNCHANGED <<tvars, uvars>>
    /\ UNCHANGED <<svars, cvars>>

\* ------------------------------------------------------- specifications
InitCommon ==
    /\ clock = 0
    /\ published = 1
    /\ cache = [a \in Auths |-> NewCache(0)]
    /\ lock = [a \in Auths |-> {}]
    /\ pc = [p \in Callers |-> "idle"]
    /\ now = [p \in Callers |-> 0]
    /\ fetches = [p \in Callers |-> 0]
    /\ resp = [p \in Callers |-> NoResp]
    /\ tok = [p \in Callers |-> NoTok]
    /\ res = [p \in Callers |-> NoRes]
    /\ wait = [p \in Callers |-> "none"]
    /\ http = [p \in Callers |-> NoHttp]

\* no handler that writes the table is at work, and the table is empty
InitStoreIdle ==
    /\ table = {}
    /\ draft = [p \in Callers |-> NoDraft]
    /\ accounts = {}

\* a CacheManager nobody has used
InitCacheIdle ==
    /\ secrets_cache = [m \in Procs |-> FALSE]
    /\ kv = [c \in CacheNames |-> [k \in CacheKeys |-> NoEntry]]
    /\ issued = [c \in CacheNames |-> [k \in CacheKeys |-> NoIssue]]
    /\ got = NoOp

\* no User at hand
InitUserIdle ==
    /\ roles = {}
    /\ item = <<>>
    /\ call = NoCall

\* no handler but the validate handler's token part
InitEntityIdle ==
    /\ store = [u \in UserIds |-> NoUser]
    /\ user_cache = [m \in Procs |-> [u \in UserIds |-> NoUser]]
    /\ permission_cache = [m \in Procs |-> [u \in UserIds |-> NoDecision]]
    /\ hash_cache = [m \in Procs |-> [u \in Usernames |-> NoHash]]
    /\ org_users_cache = [m \in Procs |-> [o \in OrgIds |-> NoUsers]]
    /\ req = [p \in Callers |-> NoReq]
    /\ calls = [p \in Callers |-> {}]

\* one authorizer, just constructed, shared by every caller
Init ==
    /\ InitCommon
    /\ InitStoreIdle
    /\ InitCacheIdle
    /\ auth = [p \in Callers |-> Shared]
    /\ InitUserIdle
    /\ InitEntityIdle

Next ==
    \/ TickSec
    \/ TickHour
    \/ Rotate
    \/ \E p \in Callers : Call(p)
    \/ \E p \in Callers : Acquire(p)
    \/ \E p \in Callers : Check(p)
    \/ \E p \in Callers, t \in Tokens : ReturnCached(p, t)
    \/ \E p \in Callers, r \in Responses : Receive(p, r)
    \/ \E p \in Callers, t \in Tokens : Process(p, t)
    \/ \E p \in Callers : Return(p)

Spec == Init /\ [][Next]_vars

\* every request owns the authorizer get_authorizer builds for it
InitHandler ==
    /\ InitCommon
    /\ InitStoreIdle
    /\ InitCacheIdle
    /\ auth = [p \in Callers |-> p]
    /\ InitUserIdle
    /\ InitEntityIdle

NextHandler ==
    \/ TickSec
    \/ TickHour
    \/ Rotate
    \/ \E p \in Callers, why \in RejectReasons : HandlerReject(p, why)
    \/ \E p \in Callers : HandlerBegin(p)
    \/ \E p \in Callers : Acquire(p)
    \/ \E p \in Callers : Check(p)
    \/ \E p \in Callers, t \in Tokens : ReturnCached(p, t)
    \/ \E p \in Callers, r \in Responses : Receive(p, r)
    \/ \E p \in Callers, t \in Tokens : Process(p, t)
    \/ \E p \in Callers : HandlerRespond(p)
    \/ \E p \in Callers : HandlerEnd(p)

SpecHandler == InitHandler /\ [][NextHandler]_vars

\* a User built by User::new with any role set, its record not yet written
InitUser ==
    /\ InitCommon
    /\ InitStoreIdle
    /\ InitCacheIdle
    /\ auth = [p \in Callers |-> Shared]
    /\ InitEntityIdle
    /\ roles \in SUBSET Roles
    /\ item = <<>>
    /\ call = NoCall

NextUser ==
    \/ \E r \in Roles : CallRolePermissions(r)
    \/ CallPermissions
    \/ \E x \in 0..AllBits : CallHasPermission(x)
    \/ \E r \in Roles : CallAddRole(r)
    \/ \E r \in Roles : CallRemoveRole(r)
    \/ \E o \in Orders(roles) : CallJoinRoles(o)
    \/ \E s \in ForeignItems : PutItem(s)
    \/ CallFromItem

SpecUser == InitUser /\ [][NextUser]_vars

\* the delete and the create function, a warm process each, over a table
\* that holds a record for every principal
InitPermission ==
    /\ InitCommon
    /\ InitStoreIdle
    /\ InitCacheIdle
    /\ auth = [p \in Callers |-> p]
    /\ InitUserIdle
    /\ store \in {[u \in UserIds |-> User(u, f[u])] : f \in [UserIds -> RoleSets]}
    /\ user_cache = [m \in Procs |-> [u \in UserIds |-> NoUser]]
    /\ permission_cache = [m \in Procs |-> [u \in UserIds |-> NoDecision]]
    /\ hash_cache = [m \in Procs |-> [u \in Usernames |-> NoHash]]
    /\ org_users_cache = [m \in Procs |-> [o \in OrgIds |-> NoUsers]]
    /\ req = [p \in Callers |-> NoReq]
    /\ calls = [p \in Callers |-> {}]

NextPermission ==
    \/ \E u \in UserIds, rs \in RoleSets : StoreWrite(u, rs)
    \/ \E m \in {"delete", "create"}, u \in UserIds : EvictPermission(m, u)
    \/ \E p \in Callers, u \in UserIds, out \in QueryOutcomes \cup {"body", "invalid", "clients"} :
          PermissionLookup(p, u, out)
    \/ \E p \in Callers : PermissionCheck(p)
    \/ \E p \in Callers, ok \in BOOLEAN : DeleteProvider(p, ok)
    \/ \E p \in Callers, ok \in BOOLEAN : DeleteTable(p, ok)
    \/ \E p \in Callers, out \in {"ok", "exists", "refused", "password", "error"} : CreateProvider(p, out)
    \/ \E p \in Callers, ok \in BOOLEAN : CreateTable(p, ok)
    \/ \E p \in Callers : RequestEnd(p)

SpecPermission == InitPermission /\ [][NextPermission]_vars

\* the validate, the get and the login function, a warm process each, over a
\* table in which a principal has a record or none
InitLookup ==
    /\ InitCommon
    /\ InitStoreIdle
    /\ InitCacheIdle
    /\ auth = [p \in Callers |-> p]
    /\ InitUserIdle
    /\ store \in {s \in [UserIds -> {NoUser} \cup {User(u, rs) : u \in UserIds, rs \in LookupRoleSets}] :
                    \A u \in UserIds : s[u] # NoUser => s[u].id = u}
    /\ user_cache = [m \in Procs |-> [u \in UserIds |-> NoUser]]
    /\ permission_cache = [m \in Procs |-> [u \in UserIds |-> NoDecision]]
    /\ hash_cache = [m \in Procs |-> [u \in Usernames |-> NoHash]]
    /\ org_users_cache = [m \in Procs |-> [o \in OrgIds |-> NoUsers]]
    /\ req = [p \in Callers |-> NoReq]
    /\ calls = [p \in Callers |-> {}]

NextLookup ==
    \/ \E p \in Callers, why \in RejectReasons : "validate" \in Serves(p) /\ Quiet(p) /\ HandlerReject(p, why)
    \/ \E p \in Callers, t \in Tokens, g \in JwksResults, secs \in Times : ValidateVerify(p, t, g, secs)
    \/ \E p \in Callers, fn \in {"get_user", "get_users"}, k \in UserIds \cup OrgIds, ok \in BOOLEAN :
          GetBegin(p, fn, k, ok)
    \/ \E p \in Callers, e \in Usernames, out \in {"ok", "invalid", "body", "clients"} :
          "login" \in Serves(p) /\ Quiet(p) /\ LoginBegin(p, e, out)
    \/ \E p \in Callers : CacheGet(p)
    \/ \E p \in Callers, out \in QueryOutcomes \cup {"clients"} : UserLookup(p, out)
    \/ \E p \in Callers, out \in QueryOutcomes \cup {"clients"} : OrgLookup(p, out)
    \/ \E p \in Callers, out \in {"items", "error"} : HashCompute(p, out)
    \/ \E p \in Callers, out \in {"ok", "no_record", "none", "denied", "unknown", "other"} : LoginAuth(p, out)
    \/ \E m \in {"validate", "get", "login"}, which \in {"user", "org", "hash"},
          k \in UserIds \cup OrgIds \cup Usernames : EvictEntry(m, which, k)
    \/ \E p \in Callers : RequestEnd(p)

SpecLookup == InitLookup /\ [][NextLookup]_vars

\* the login function's warm process: every invocation slot is a login, the
\* invocations overlap, and no entry of the hash cache expires
InitLogin ==
    /\ InitCommon
    /\ InitStoreIdle
    /\ InitCacheIdle
    /\ auth = [p \in Callers |-> Shared]
    /\ InitUserIdle
    /\ InitEntityIdle

NextLogin ==
    \/ \E p \in Callers, e \in Usernames, out \in {"ok", "invalid", "body", "clients"} :
          LoginBegin(p, e, out)
    \/ \E p \in Callers : CacheGet(p)
    \/ \E p \in Callers, out \in {"items", "error"} : HashCompute(p, out)
    \/ \E p \in Callers, out \in {"ok", "no_record", "none", "denied", "unknown", "other"} :
          LoginAuth(p, out)
    \/ \E p \in Callers : RequestEnd(p)

SpecLogin == InitLogin /\ [][NextLogin]_vars

(***************************************************************************)
(* The CacheManager's operations.  get_* and set_* are one call of the     *)
(* cache each (get, insert), atomic for their key; clear_all calls         *)
(* invalidate_all on the five caches.  An entry lives for the time to live *)
(* of its cache, counted from its insert, and a cache that holds more      *)
(* entries than its capacity evicts one of them.                           *)
(***************************************************************************)
\* CacheManager::new: the time to live each cache is built with
TTLOf_Base(c) == CacheTTL

TTLOf(c) ==
    CASE c = "hash" -> HashTTL
      [] c = "secrets" -> SecretsTTL
      [] OTHER -> CacheTTL

\* CacheManager::new: the capacity each cache is built with
CapacityOf(c) == IF c \in {"secrets", "org_users"} THEN SmallCapacity ELSE LargeCapacity

\* Cache::get: the entry's value unless the entry has expired
moka_get(c, k) ==
    LET e == kv[c][k]
    IN IF e.some /\ clock < e.at + TTLOf(c) THEN [some |-> TRUE, v |-> e.v] ELSE NoEntry

\* Cache::insert: the entry is replaced and its time of insert is now
moka_insert_Keep(m, k, v, at) ==
    IF m[k].some THEN m ELSE [m EXCEPT ![k] = Entry(v, at)]

moka_insert(m, k, v, at) == [m EXCEPT ![k] = Entry(v, at)]

\* Cache::invalidate_all
invalidate_all_None(m) == m

invalidate_all(m) == [k \in CacheKeys |-> NoEntry]

CacheFrame ==
    /\ UNCHANGED <<published, cache, lock, pc, auth, now, fetches, resp, tok, res, wait, http>>
    /\ UNCHANGED <<uvars, evars, svars, secrets_cache>>

\* set_user, set_permission, set_hash, set_secrets, set_org_users
CacheSet(c, k, v) ==
    /\ clock <= MaxSetTime
    /\ Cardinality({ck \in CacheNames \X CacheKeys : issued[ck[1]][ck[2]].some}
                      \cup {<<c, k>>}) <= MaxTouched
    /\ kv' = [kv EXCEPT ![c] = moka_insert(@, k, v, clock)]
    /\ issued' = [issued EXCEPT ![c][k] = Issue(@.vals \cup {v}, v, clock, FALSE, FALSE)]
    /\ got' = NoOp
    /\ UNCHANGED clock
    /\ CacheFrame

\* get_user, get_permission, get_hash, get_secrets, get_org_users
CacheRead(c, k) ==
    /\ issued[c][k].some
    /\ got' = [op |-> "get", cache |-> c, key |-> k, res |-> moka_get(c, k)]
    /\ UNCHANGED <<kv, issued, clock>>
    /\ CacheFrame

\* CacheManager::clear_all
ClearAll ==
    /\ kv' = [c \in CacheNames |-> invalidate_all(kv[c])]
    /\ issued' = [c \in CacheNames |-> [k \in CacheKeys |->
                    IF issued[c][k].some
                    THEN [issued[c][k] EXCEPT !.cleared = TRUE]
                    ELSE issued[c][k]]]
    /\ got' = [op |-> "clear_all", cache |-> "all", key |-> "all", res |-> NoEntry]
    /\ UNCHANGED clock
    /\ CacheFrame

\* a cache over its capacity evicts an entry: the new one or an older one
CacheEvict(c, k) ==
    /\ kv[c][k].some
    /\ Cardinality({j \in CacheKeys : kv[c][j].some}) > CapacityOf(c)
    /\ kv' = [kv EXCEPT ![c][k] = NoEntry]
    /\ issued' = [issued EXCEPT ![c][k].evicted = TRUE]
    /\ got' = NoOp
    /\ UNCHANGED clock
    /\ CacheFrame

\* time passes
Elapse ==
    /\ clock < MaxHalfHours * CacheTTL
    /\ clock' = clock + CacheTTL
    /\ got' = NoOp
    /\ UNCHANGED <<kv, issued>>
    /\ CacheFrame

InitCache ==
    /\ InitCommon
    /\ InitStoreIdle
    /\ InitCacheIdle
    /\ auth = [p \in Callers |-> Shared]
    /\ InitUserIdle
    /\ InitEntityIdle

NextCache ==
    \/ \E c \in CacheNames, k \in CacheKeys, v \in CacheValues : CacheSet(c, k, v)
    \/ \E c \in CacheNames, k \in CacheKeys : CacheRead(c, k)
    \/ ClearAll
    \/ \E c \in CacheNames, k \in CacheKeys : CacheEvict(c, k)
    \/ Elapse

SpecCache == InitCache /\ [][NextCache]_vars

(***************************************************************************)
(* The handlers that write the users table: signup, create and update.     *)
(* Invocation slot 1 is the signup function's process, the others serve    *)
(* create and update.                                                      *)
(***************************************************************************)
\* what a request can carry
RequestNames == {"n2"}
RequestRoles == {{}, {"Reader"}}
RequestOrgs == {"g1"}

\* Scan without ExclusiveStartKey returns the first page of the table, in an
\* order the caller does not control: scan_table sends one Scan
scan_table(T) ==
    {P \in SUBSET T :
        Cardinality(P) = IF Cardinality(T) < PageItems THEN Cardinality(T) ELSE PageItems}

\* find_organization_id_by_name: the organization_id of the first scanned
\* item whose organization_name is the name, Absent for None
find_organization_id_by_name(page, oname) ==
    LET ids == {i.organization_id : i \in {j \in page : j.organization_name = oname}}
    IN IF ids = {} THEN {Absent} ELSE ids

\* generate_uuid: an id no organization has
generate_uuid(used) == Uuids \ used

\* signup's generate_new_user, with the lookup's result and the fresh id
generate_new_user_Swapped(id, name, oname, found, fresh) ==
    IF found # Absent
    THEN User_new(id, name, found, oname, {"Admin"})
    ELSE User_new(id, name, fresh, oname, {"Writer"})

generate_new_user(id, name, oname, found, fresh) ==
    IF found # Absent
    THEN User_new(id, name, found, oname, {"Writer"})
    ELSE User_new(id, name, fresh, oname, {"Admin"})

\* create_user: PutItem of the attributes id, user_name, organization_id,
\* organization_name and roles
create_user(T, user) ==
    {i \in T : ~(i.id = user.id /\ i.organization_id = user.organization_id)}
        \cup {Item(user.id, user.organization_id, user.organization_name,
                   Absent, user.name, user.roles)}

\* the key update_user addresses
update_key_ByName(user) == <<user.id, user.organization_name>>

update_key(user) == <<user.id, user.organization_id>>

\* update_user's UpdateItem: SET user_name, organization_name and roles on
\* the item of the key, which is created when the table has none
update_user(T, user) ==
    LET key == update_key(user)
        old == {i \in T : <<i.id, i.organization_id>> = key}
        name == IF old = {} THEN Absent ELSE (CHOOSE i \in old : TRUE).name
    IN (T \ old) \cup {Item(key[1], key[2], user.organization_name,
                            name, user.name, user.roles)}

\* User::from_item on the item a query by id returns: the attribute "name"
\* and at least one role token are required
Readable(T, id) == {i \in T : i.id = id /\ i.name # Absent /\ i.roles # {}}

\* CreateUserRequest::validate on the roles
validate_roles_Any(rs) == TRUE

validate_roles(rs) == rs # {}

\* the identity provider gives every account an id of its own: the first
\* of SubOrder no account has
NewSubs ==
    LET used == accounts \cup {i.id : i \in table}
        free == {n \in 1..Len(SubOrder) : SubOrder[n] \notin used}
    IN {SubOrder[n] : n \in {m \in free : \A k \in free : m <= k}}

\* handle_requests when the event's resource is not the function's route
Unrouted(p) ==
    /\ pc[p] = "idle"
    /\ pc' = [pc EXCEPT ![p] = "responded"]
    /\ http' = [http EXCEPT ![p] = PlainResponse(404)]
    /\ UNCHANGED <<clock, published, cache, lock, auth, now, fetches, resp, tok, res, wait>>
    /\ UNCHANGED <<uvars, evars, svars, cvars>>

StoreFrame ==
    /\ UNCHANGED <<clock, published, cache, lock, auth, now, fetches, resp, tok, res, wait>>
    /\ UNCHANGED <<uvars, evars, cvars>>

\* what a handler does about the account it has made when a later step
\* fails: the error is returned through `?`, the account is left
on_failure_Rollback(A, id) == A \ {id}

on_failure(A, id) == A

\* signup_handler up to generate_new_user: the account is made at the
\* provider, its password set and its email marked verified, the table is
\* scanned, the User is built
SignupScan(p, id, name, oname, out) ==
    /\ pc[p] = "idle"
    /\ id \in NewSubs
    /\ \/ /\ out = "invalid"
          /\ pc' = [pc EXCEPT ![p] = "responded"]
          /\ http' = [http EXCEPT ![p] = ErrorResponse(LErr("InvalidEmail", <<>>))]
          /\ UNCHANGED <<draft, accounts>>
       \/ /\ out = "clients"
          /\ pc' = [pc EXCEPT ![p] = "responded"]
          /\ http' = [http EXCEPT ![p] = RuntimeError]
          /\ UNCHANGED <<draft, accounts>>
       \/ /\ out = "refused"
          /\ pc' = [pc EXCEPT ![p] = "responded"]
          /\ http' = [http EXCEPT ![p] =
                        ErrorResponse(LErr("InternalError", AdminCreateUserText))]
          /\ UNCHANGED <<draft, accounts>>
       \/ /\ out = "later"
          /\ pc' = [pc EXCEPT ![p] = "responded"]
          /\ http' = [http EXCEPT ![p] = RuntimeError]
          /\ accounts' = on_failure(accounts \cup {id}, id)
          /\ UNCHANGED draft
       \/ /\ out = "ok"
          /\ \E page \in scan_table(table) :
             \E found \in find_organization_id_by_name(page, oname) :
             \E fresh \in generate_uuid({i.organization_id : i \in table} \cup
                     {draft[q].user.organization_id : q \in {r \in Callers : draft[r].some}}) :
                draft' = [draft EXCEPT ![p] =
                            Draft(generate_new_user(id, name, oname, found, fresh))]
          /\ accounts' = accounts \cup {id}
          /\ pc' = [pc EXCEPT ![p] = "put"]
          /\ UNCHANGED http
    /\ UNCHANGED table
    /\ StoreFrame

\* signup_handler's create_user and its response
SignupPut(p, ok) ==
    /\ pc[p] = "put"
    /\ pc' = [pc EXCEPT ![p] = "responded"]
    /\ draft' = [draft EXCEPT ![p] = NoDraft]
    /\ IF ok
       THEN /\ table' = create_user(table, draft[p].user)
            /\ http' = [http EXCEPT ![p] = Success]
            /\ UNCHANGED accounts
       ELSE /\ UNCHANGED table
            /\ http' = [http EXCEPT ![p] = RuntimeError]
            /\ accounts' = on_failure(accounts, draft[p].user.id)
    /\ StoreFrame

\* create_user_handler: validation, the caller's permission, the account at
\* the provider, generate_new_user with the request's roles, create_user
CreateUser(p, id, name, org, oname, rs, out) ==
    /\ pc[p] = "idle"
    /\ id \in NewSubs
    /\ pc' = [pc EXCEPT ![p] = "responded"]
    /\ UNCHANGED draft
    /\ IF ~validate_roles(rs) \/ out = "invalid"
       THEN /\ http' = [http EXCEPT ![p] = ErrorResponse(LErr("InvalidEmail", <<>>))]
            /\ UNCHANGED <<table, accounts>>
       ELSE CASE out = "denied" ->
                   /\ http' = [http EXCEPT ![p] =
                                 ErrorResponse(LErr("InsufficientPermissions", <<>>))]
                   /\ UNCHANGED <<table, accounts>>
              [] out = "refused" ->
                   /\ http' = [http EXCEPT ![p] =
                                 ErrorResponse(LErr("UserCreationFailed", AdminCreateUserText))]
                   /\ UNCHANGED <<table, accounts>>
              [] out = "ok" ->
                   /\ http' = [http EXCEPT ![p] = Success]
                   /\ accounts' = accounts \cup {id}
                   /\ table' = create_user(table, User_new(id, name, org, oname, rs))
              [] out = "later" ->
                   /\ http' = [http EXCEPT ![p] = RuntimeError]
                   /\ accounts' = on_failure(accounts \cup {id}, id)
                   /\ UNCHANGED table
              [] OTHER ->
                   /\ http' = [http EXCEPT ![p] = RuntimeError]
                   /\ UNCHANGED <<table, accounts>>
    /\ StoreFrame

\* User::set_from_roles: add_role of each role of the list
set_from_roles_Replace(held, rs) == rs

set_from_roles(held, rs) == held \cup rs

\* update_user_handler for the caller id: get_user_by_id, the UPDATE
\* permission, the new name, organization name and added roles, update_user
UpdateUser(p, id, name, oname, rs, out) ==
    /\ pc[p] = "idle"
    /\ pc' = [pc EXCEPT ![p] = "responded"]
    /\ UNCHANGED <<draft, accounts>>
    /\ IF {i \in table : i.id = id} = {}
       THEN /\ http' = [http EXCEPT ![p] = Panicked]
            /\ UNCHANGED table
       ELSE IF Readable(table, id) = {} \/ out = "error"
       THEN /\ http' = [http EXCEPT ![p] = RuntimeError]
            /\ UNCHANGED table
       ELSE \E i \in Readable(table, id) :
              IF ~has_permission(i.roles, UPDATE)
              THEN /\ http' = [http EXCEPT ![p] = PlainResponse(403)]
                   /\ UNCHANGED table
              ELSE LET user == User_new(i.id, name, i.organization_id, oname,
                                        IF rs # {} THEN set_from_roles(i.roles, rs)
                                        ELSE i.roles)
                   IN /\ table' = update_user(table, user)
                      /\ http' = [http EXCEPT ![p] =
                                    IF out = "item" THEN Success ELSE RuntimeError]
    /\ StoreFrame

InitStore ==
    /\ InitCommon
    /\ InitCacheIdle
    /\ auth = [p \in Callers |-> Shared]
    /\ InitUserIdle
    /\ InitEntityIdle
    /\ table \in Seeds
    /\ draft = [p \in Callers |-> NoDraft]
    /\ accounts = {i.id : i \in table}

NextStore ==
    \/ \E id \in Subs, name \in RequestNames, oname \in OrgNames,
          out \in {"ok", "invalid", "clients", "refused", "later"} :
          SignupScan(1, id, name, oname, out)
    \/ \E ok \in BOOLEAN : SignupPut(1, ok)
    \/ \E p \in Callers \ {1}, id \in Subs, name \in RequestNames, org \in RequestOrgs,
          oname \in OrgNames, rs \in RequestRoles,
          out \in {"ok", "invalid", "denied", "refused", "later", "error"} :
          CreateUser(p, id, name, org, oname, rs, out)
    \/ \E p \in Callers \ {1}, id \in Subs, name \in RequestNames,
          oname \in OrgNames, rs \in RequestRoles, out \in {"error", "none", "item"} :
          UpdateUser(p, id, name, oname, rs, out)
    \/ \E p \in Callers : Unrouted(p)
    \/ \E p \in Callers : RequestEnd(p)

SpecStore == InitStore /\ [][NextStore]_vars

\* signup requests alone, on every process at once, on a table that starts
\* empty: each invocation is a Lambda execution of its own
InitSignup ==
    /\ InitCommon
    /\ InitCacheIdle
    /\ auth = [p \in Callers |-> Shared]
    /\ InitUserIdle
    /\ InitEntityIdle
    /\ InitStoreIdle

NextSignup ==
    \/ \E p \in Callers, id \in Subs, name \in RequestNames, oname \in OrgNames,
          out \in {"ok", "invalid", "clients", "refused", "later"} :
          SignupScan(p, id, name, oname, out)
    \/ \E p \in Callers, ok \in BOOLEAN : SignupPut(p, ok)
    \/ \E p \in Callers : RequestEnd(p)

SpecSignup == InitSignup /\ [][NextSignup]_vars

\* ------------------------------------------------------------ properties
InFlight(p) == pc[p] \in {"fetching", "received"}
\* the step on which validate_token returns
Returns(p) == pc[p] \in {"fresh", "received"} /\ pc'[p] = "done"
\* the GET of p failed: transport error, non-success status or unparsable body
FetchFailed(p) ==
    pc[p] = "received" /\ (resp[p].kind = "neterr" \/ ~resp[p].success \/ resp[p].body = BadBody)

IsExpired(r) == r.kind = "Err" /\ r.variant = "JwtError" /\ r.detail = "ExpiredSignature"
IsIssuerMismatch(r) == r.kind = "Err" /\ r.variant = "JwtError" /\ r.detail = "InvalidIssuer"
IsSignatureInvalid(r) == r.kind = "Err" /\ r.variant = "JwtError" /\ r.detail = "InvalidSignature"
IsMalformed(r) == r.kind = "Err" /\ r.variant = "JwtError" /\ r.detail = "InvalidToken"
IsUnknownKey(r) == r.kind = "Err" /\ r.variant = "InvalidTokenError" /\ r.detail = "Key not found"

\* t is well formed, signed with the key of its key id, which is in keys,
\* issued by the configured issuer and not expired at secs
ValidFor(t, keys, secs) ==
    /\ t.hdr /\ t.alg = "RS256"
    /\ t.kid \in keys /\ t.sig = t.kid
    /\ t.iss = Issuer
    /\ t.exp > secs

\* C1 (state part): a caller whose get_jwks has sent the GET read a `now`
\* more than TTL past the cached timestamp, holds the lock alone and has sent
\* exactly one GET; a caller returning the cached set read a `now` at most TTL
\* past it and has sent none.
C1_Inv ==
    \A p \in Callers :
        /\ InFlight(p) =>
              /\ now[p] - cache[auth[p]].time > TTL
              /\ fetches[p] = 1
              /\ lock[auth[p]] = {p}
        /\ pc[p] = "fresh" =>
              /\ now[p] - cache[auth[p]].time <= TTL
              /\ fetches[p] = 0

\* C1 (step part): a GET is sent exactly on the TTL test of a caller that
\* finds now - fetch_time > TTL; a cache changes only when the caller holding
\* it stores the body its GET returned, and set and timestamp change
\* together: the new pair is (that body, that caller's now).
C1_Step ==
    /\ \A p \in Callers :
          /\ fetches'[p] > fetches[p] =>
                pc[p] = "locked" /\ clock - cache[auth[p]].time > TTL
          /\ (pc[p] = "locked" /\ pc'[p] # "locked") =>
                IF clock - cache[auth[p]].time > TTL
                THEN fetches'[p] = fetches[p] + 1 /\ pc'[p] = "fetching"
                ELSE fetches'[p] = fetches[p] /\ pc'[p] = "fresh"
    /\ \A a \in Auths :
          cache'[a] # cache[a] =>
             \E p \in Callers :
                /\ auth[p] = a /\ pc[p] = "received" /\ lock[a] = {p}
                /\ resp[p].kind = "http" /\ resp[p].body # BadBody
                /\ cache'[a] = [jwks |-> resp[p].body, time |-> now[p]]

\* C1: get_jwks fetches if and only if now - fetch_time > 3600 and otherwise
\* returns the cached set; a fetch that stores replaces set and timestamp
\* together and wholesale.
C1_FetchIffStale == []C1_Inv /\ [][C1_Step]_vars

\* C1 witness: one caller has refreshed the shared cache over an earlier
\* fetched set, after a rotation, and another is returning the cached set.
C1_Witness ==
    \E p, q \in Callers :
        /\ pc[p] = "done" /\ fetches[p] = 1
        /\ cache[Shared] = [jwks |-> Jwks({"k2"}), time |-> 2 * TTL + 2]
        /\ pc[q] = "fresh" /\ fetches[q] = 0

C3_SharedKeySet ==
    \A p, q \in Callers :
        ( /\ p # q
          /\ pc[p] \in {"done", "responded"}
          /\ cache[auth[p]].jwks.kind = "jwks"
          /\ pc[q] \in {"fresh", "fetching", "received"}
          /\ now[q] >= cache[auth[p]].time
          /\ now[q] - cache[auth[p]].time <= TTL )
        => /\ pc[q] = "fresh"
           /\ cache[auth[q]].jwks = cache[auth[p]].jwks

\* C4: a fetch that fails (transport error, non-success status, unparsable
\* body) returns a fetch error and leaves the cached set and timestamp as
\* they were.
C4_FailedFetchNotCached ==
    [][\A p \in Callers :
          (FetchFailed(p) /\ pc'[p] = "done") =>
             /\ cache' = cache
             /\ res'[p].kind = "Err"
             /\ res'[p].variant \in {"ReqwestError", "HttpError"}]_vars

\* the GET of p ended in an error get_jwks returns: transport or parse
FetchErrored(p) ==
    pc[p] = "received" /\ (resp[p].kind = "neterr" \/ resp[p].body = BadBody)

\* C5: when a refresh fails with a fetch error while an earlier fetched set
\* is cached, validate_token of a token valid under that set succeeds with
\* its subject.
C5_StaleSetServes ==
    [][\A p \in Callers :
          ( /\ FetchErrored(p) /\ pc'[p] = "done"
            /\ cache[auth[p]].jwks.kind = "jwks"
            /\ ValidFor(tok'[p], cache[auth[p]].jwks.keys, clock) )
          => res'[p] = Ok(tok'[p].sub)]_vars

\* C6: a caller is kept waiting for the lock only by a refresh, never by a
\* caller that found the set fresh and is only reading it.
C6_ReadersDoNotBlock ==
    \A q, p \in Callers :
        ~ ( /\ pc[q] = "acquire"
            /\ p \in lock[auth[q]]
            /\ pc[p] = "fresh"
            /\ clock - cache[auth[q]].time <= TTL )

\* C7: validate_token of a well-formed token, signed with a key the issuer
\* publishes, unexpired and issued by the configured issuer returns Claims
\* with the token's subject, from the first call on.
C7_ValidTokenAccepted ==
    [][\A p \in Callers :
          (Returns(p) /\ ValidFor(tok'[p], Published, clock))
          => res'[p] = Ok(tok'[p].sub)]_vars

\* the key ids of the key set get_jwks returned
KeysOf(v) == IF v.kind = "jwks" THEN v.keys ELSE {}

\* C8: when get_jwks returned a key set, a token whose only fault is a key id
\* absent from that set fails UnknownKey, one whose only fault is an exp in
\* the past fails Expired, one whose only fault is a foreign iss fails
\* IssuerMismatch.
C8_FaultKinds ==
    [][\A p \in Callers :
          (Returns(p) /\ ~FetchFailed(p)) =>
             LET t == tok'[p]
                 r == res'[p]
                 keys == KeysOf(cache'[auth[p]].jwks)
                 sound == t.hdr /\ t.alg = "RS256" /\ t.kid # "nokid" /\ t.sig = t.kid
             IN /\ (sound /\ t.kid \notin keys /\ t.iss = Issuer /\ t.exp > clock)
                      => IsUnknownKey(r)
                /\ (sound /\ t.kid \in keys /\ t.iss = Issuer /\ t.exp < clock)
                      => IsExpired(r)
                /\ (sound /\ t.kid \in keys /\ t.iss # Issuer /\ t.exp > clock)
                      => IsIssuerMismatch(r)]_vars

\* C9: the validate endpoint answers Expired with 401 and the expiry error,
\* and UnknownKey, SignatureInvalid, MalformedToken and IssuerMismatch with
\* 401 and another error.
C9_ErrorClasses ==
    [][\A p \in Callers :
          (pc[p] = "done" /\ pc'[p] = "responded") =>
             /\ IsExpired(res[p]) =>
                   http'[p].status = 401 /\ http'[p].error = S_TokenExpired
             /\ (IsUnknownKey(res[p]) \/ IsSignatureInvalid(res[p])
                   \/ IsMalformed(res[p]) \/ IsIssuerMismatch(res[p])) =>
                   http'[p].status = 401 /\ http'[p].error # S_TokenExpired]_vars

\* C10: one validate_token call sends at most one GET for the key set.
C10_AtMostOneFetch ==
    \A p \in Callers : fetches[p] <= 1

\* C10 witness: a call that fetched the key set ended UnknownKey, with the
\* one GET it had sent.
C10_Witness ==
    \E p \in Callers : pc[p] = "done" /\ IsUnknownKey(res[p]) /\ fetches[p] = 1

\* ------------------------------------------------ permission model claims
\* the flags set in the permission set x
FlagsOf(x) == {f \in {READ, WRITE, CREATE, DELETE, UPDATE} : (x \div f) % 2 = 1}
\* the flags the roles of S grant
Granted(S) == UNION {FlagsOf(Role_permissions(r)) : r \in S}

\* C15: Role.permissions() is the fixed table Reader = {READ}, Writer =
\* {READ, WRITE, CREATE}, Admin = {READ, WRITE, CREATE, DELETE, UPDATE}: Admin
\* strictly contains Writer, Writer strictly contains Reader, and UPDATE and
\* DELETE are granted by Admin only.
C15_RoleTable ==
    /\ call.op = "Role::permissions" =>
          /\ call.role = "Reader" => call.bits = 1 /\ FlagsOf(call.bits) = {READ}
          /\ call.role = "Writer" => call.bits = 7 /\ FlagsOf(call.bits) = {READ, WRITE, CREATE}
          /\ call.role = "Admin" =>
                call.bits = 31 /\ FlagsOf(call.bits) = {READ, WRITE, CREATE, DELETE, UPDATE}
    /\ LET P(r) == FlagsOf(Role_permissions(r))
       IN /\ P("Reader") \subseteq P("Writer") /\ P("Reader") # P("Writer")
          /\ P("Writer") \subseteq P("Admin") /\ P("Writer") # P("Admin")
          /\ \A r \in Roles : (UPDATE \in P(r) \/ DELETE \in P(r)) => r = "Admin"

\* C15 witness: Role::permissions was asked for Writer and answered
\* READ | WRITE | CREATE.
C15_Witness ==
    call.op = "Role::permissions" /\ call.role = "Writer" /\ call.bits = 7

\* C16: has_permission(x) holds exactly when every flag of x is granted by
\* one of the principal's roles; without roles the effective set is empty.
C16_HasPermissionSubset ==
    /\ call.op = "has_permission" =>
          (call.yes <=> FlagsOf(call.x) \subseteq Granted(call.before))
    /\ (call.op = "permissions" /\ call.before = {}) => call.bits = 0
    /\ call.op = "permissions" => FlagsOf(call.bits) = Granted(call.before)

\* C16 witness: a Reader and Writer was asked for WRITE | CREATE | DELETE and
\* answered no, holding two of the three.
C16_Witness ==
    /\ call.op = "has_permission" /\ call.before = {"Reader", "Writer"}
    /\ call.x = 14 /\ ~call.yes

\* C17 as stated: has_permission(x) is true exactly when the effective
\* permissions AND x is not zero, for every x.
C17_AndNonzero ==
    call.op = "has_permission" =>
        (call.yes <=> FlagsOf(call.x) \cap Granted(call.before) # {})

\* C17 as amended: for a set x of exactly one flag has_permission(x) is true
\* exactly when the effective permissions AND x is not zero; for any x it is
\* true exactly when the effective permissions AND x equals x.
C17_AndEqualsArgument ==
    call.op = "has_permission" =>
        /\ Cardinality(FlagsOf(call.x)) = 1 =>
              (call.yes <=> FlagsOf(call.x) \cap Granted(call.before) # {})
        /\ call.yes <=> (FlagsOf(call.x) \cap Granted(call.before) = FlagsOf(call.x))

\* C17 witness: a Writer was asked for CREATE alone and answered yes.
C17_Witness ==
    /\ call.op = "has_permission" /\ call.before = {"Writer"}
    /\ call.x = CREATE /\ call.yes

\* C18 as stated: add_role(r) followed by remove_role(r) restores the
\* effective permission set, whether or not the principal held r.
C18_AddRemoveRestores ==
    (call.op = "remove_role" /\ call.prev.op = "add_role" /\ call.prev.role = call.role)
    => User_permissions(roles) = User_permissions(call.prev.before)

\* C18 as amended: for a role r the principal does not hold, add_role(r)
\* followed by remove_role(r) restores the role set and with it the effective
\* permission set; for a role it holds, add_role(r) changes nothing and
\* remove_role(r) takes r away.
C18_AddRemoveNewRole ==
    (call.op = "remove_role" /\ call.prev.op = "add_role" /\ call.prev.role = call.role)
    => /\ call.role \notin call.prev.before =>
             /\ roles = call.prev.before
             /\ FlagsOf(User_permissions(roles)) = Granted(call.prev.before)
       /\ call.role \in call.prev.before =>
             /\ call.before = call.prev.before
             /\ roles = call.prev.before \ {call.role}

\* C18 witness: a Reader was given Writer and lost it again.
C18_Witness ==
    /\ call.op = "remove_role" /\ call.prev.op = "add_role"
    /\ call.role = "Writer" /\ call.prev.role = "Writer"
    /\ call.prev.before = {"Reader"}

\* C19: from_item of the string join_roles produced for a non-empty role set
\* yields that set, in whatever order the set was iterated.
C19_RolesRoundTrip ==
    (call.op = "from_item" /\ call.prev.op = "join_roles" /\ call.prev.before # {})
    => call.ok /\ roles = call.prev.before

\* C19 witness: the three roles, written Writer first and Admin last, were
\* read back.
C19_Witness ==
    /\ call.op = "from_item" /\ call.prev.op = "join_roles"
    /\ call.prev.before = Roles
    /\ item = join_roles(<<"Writer", "Reader", "Admin">>)

\* the tokens that are no role name, padded or not
UnknownTokens == {S_admin, S_Owner, <<>>}
\* s is a ':'-separated list with a token that is no role name
HasUnknownToken(s) ==
    \E n \in 1..(MaxTokens + 1) : \E ts \in [1..n -> ForeignTokens] :
        s = Join(ts, <<":">>) /\ \E i \in 1..n : ts[i] \in UnknownTokens

C13_DeniedDeleteIs403 ==
    [][\A p \in Callers :
          /\ (/\ Function(p) = "delete" /\ pc[p] = "check" /\ pc'[p] # "check"
              /\ ~has_permission(req[p].user.roles, DELETE))
             => /\ pc'[p] = "responded"
                /\ http'[p].kind = "response" /\ http'[p].status = 403
          /\ (calls'[p] \ calls[p]) \cap {"admin_delete_user", "delete_user_by_id"} # {}
             => pc[p] \in {"provider", "table"}
          /\ (Function(p) = "delete" /\ pc'[p] = "provider" /\ pc[p] # "provider")
             => pc[p] = "check" /\ has_permission(req[p].user.roles, DELETE)]_vars

\* C14 (as stated): the key of a cached permission decision identifies the
\* principal and the action, so entries under one key are decisions about
\* one action, and a hit answers the action asked
C14_KeyIdentifiesAction ==
    \A m1 \in Procs, m2 \in Procs, u \in UserIds :
       permission_cache[m1][u].some /\ permission_cache[m2][u].some
       => permission_cache[m1][u].flag = permission_cache[m2][u].flag

\* C14 (amended): the key of a cached permission decision is the principal's
\* id alone, and the cache is the process's own: the delete function's cache
\* holds only decisions about DELETE, the create function's only decisions
\* about CREATE, each under the id of the principal it was computed for, and
\* a check answered from the cache returns the entry of the asking principal
C14_DecisionPerPrincipalPerFunction ==
    [][/\ \A m \in Procs, u \in UserIds :
             permission_cache'[m][u].some
             => /\ permission_cache'[m][u].id = u
                /\ m \in {"delete", "create"}
                /\ m = "delete" => permission_cache'[m][u].flag = DELETE
                /\ m = "create" => permission_cache'[m][u].flag = CREATE
       /\ \A p \in Callers :
             (pc[p] = "check" /\ pc'[p] # "check"
              /\ permission_cache[Function(p)][req[p].key].some)
             => /\ (pc'[p] = "provider") <=> permission_cache[Function(p)][req[p].key].has
                /\ calls'[p] = calls[p]
                /\ UNCHANGED permission_cache]_vars

\* a create request allowed from the cache while the delete function's cache
\* holds a refusal for the same principal
C14_Witness ==
    \E p \in Callers :
       /\ Function(p) = "create" /\ pc[p] = "provider"
       /\ "has_permission" \notin calls[p]
       /\ permission_cache["create"][req[p].key].has
       /\ permission_cache["delete"][req[p].key].some
       /\ ~permission_cache["delete"][req[p].key].has

\* C11: a validate request resolves the principal (cache or table) only
\* after validate_token succeeded, and for the token's subject; a rejected
\* token and a failed lookup end the request without a principal, a cache
\* write or a 200; a request that has responded takes no further step but
\* its end; a 200 comes only from the step that resolved the principal
C11_Inv ==
    \A p \in Callers :
       (req[p].fn = "validate" /\ pc[p] \in {"resolve", "lookup"})
       => res[p].kind = "Ok" /\ req[p].key = res[p].sub

C11_Step ==
    /\ \A u \in UserIds :
          (user_cache'["validate"][u] # user_cache["validate"][u]
           /\ user_cache'["validate"][u] # NoUser)
          => \E p \in Callers : pc[p] = "lookup" /\ res[p].kind = "Ok" /\ res[p].sub = u
    /\ \A p \in Callers :
          "validate" \in Serves(p) =>
             /\ (req'[p].user # req[p].user /\ req'[p].user # NoUser)
                => /\ pc[p] \in {"resolve", "lookup"}
                   /\ res[p].kind = "Ok" /\ req'[p].user.id = res[p].sub
             /\ (pc[p] = "idle" /\ pc'[p] # "idle" /\ res'[p].kind # "Ok")
                => /\ pc'[p] = "responded" /\ http'[p].status # 200
                   /\ req'[p].user = NoUser
                   /\ user_cache' = user_cache
             /\ (pc[p] = "lookup" /\ pc'[p] # "lookup" /\ req'[p].user = NoUser)
                => /\ pc'[p] = "responded" /\ http'[p].status # 200
                   /\ user_cache' = user_cache
             /\ pc[p] = "responded"
                => \/ pc'[p] = "idle"
                   \/ /\ pc'[p] = "responded" /\ http'[p] = http[p] /\ req'[p] = req[p]
                      /\ user_cache'["validate"] \in {user_cache["validate"]}
                                \cup {[user_cache["validate"] EXCEPT ![u] = NoUser] : u \in UserIds}
             /\ (http'[p].status = 200 /\ http[p].status # 200)
                => /\ pc[p] \in {"resolve", "lookup"}
                   /\ req'[p].user # NoUser /\ req'[p].user.id = res[p].sub

C11_ValidateStateMachine == []C11_Inv /\ [][C11_Step]_vars

\* a validate request answered 200 with the principal of its token's subject
C11_Witness ==
    \E p \in Callers :
       /\ req[p].fn = "validate" /\ pc[p] = "responded" /\ http[p] = Success
       /\ res[p].kind = "Ok" /\ req[p].user = store[res[p].sub]
       /\ "get_user_by_id" \in calls[p]

\* C12: the user, organization and hash caches take an entry only in the
\* step of a request that missed the cache for that key and whose
\* collaborator succeeded, the entry is the collaborator's value, and it is
\* written in the step that returns it; a miss whose collaborator fails
\* leaves no entry for the key
C12_CacheAsideNoFailure ==
    [][/\ \A m \in Procs, u \in UserIds :
             (user_cache'[m][u] # user_cache[m][u] /\ user_cache'[m][u] # NoUser)
             => \E p \in Callers :
                   /\ pc[p] = "lookup" /\ req[p].fn \in {"validate", "get_user"}
                   /\ CacheOf(req[p].fn) = m /\ req[p].key = u
                   /\ store[u] # NoUser /\ user_cache'[m][u] = store[u]
                   /\ req'[p].user = store[u] /\ http'[p] = Success
       /\ \A m \in Procs, o \in OrgIds :
             (org_users_cache'[m][o] # org_users_cache[m][o] /\ org_users_cache'[m][o].some)
             => \E p \in Callers :
                   /\ pc[p] = "lookup" /\ req[p].fn = "get_users"
                   /\ m = "get" /\ req[p].key = o
                   /\ org_users_cache'[m][o].users = {store[u] : u \in UserIds} \ {NoUser}
                   /\ req'[p].users = org_users_cache'[m][o] /\ http'[p] = Success
       /\ \A m \in Procs, e \in Usernames :
             (hash_cache'[m][e] # hash_cache[m][e] /\ hash_cache'[m][e] # NoHash)
             => \E p \in Callers :
                   /\ pc[p] = "lookup" /\ req[p].fn = "login"
                   /\ m = "login" /\ req[p].key = e
                   /\ hash_cache'[m][e] = Hash(e)
                   /\ req'[p].hash = Hash(e) /\ pc'[p] = "login"
       /\ \A p \in Callers :
             (pc[p] = "lookup" /\ pc'[p] = "responded" /\ http'[p] # Success)
             => LET m == CacheOf(req[p].fn)
                    k == req[p].key
                IN CASE req[p].fn \in {"validate", "get_user"} -> user_cache'[m][k] = NoUser
                     [] req[p].fn = "get_users" -> ~org_users_cache'[m][k].some
                     [] OTHER -> hash_cache'[m][k] = NoHash]_vars

\* a lookup of a principal missed the cache, get_user_by_id failed, and the
\* cache has no entry for the principal
C12_Witness ==
    \E p \in Callers :
       /\ pc[p] = "responded" /\ req[p].fn \in {"validate", "get_user"}
       /\ "get_user_by_id" \in calls[p]
       /\ http[p] # Success
       /\ user_cache[CacheOf(req[p].fn)][req[p].key] = NoUser

\* --------------------------------------------------------------- C21
\* C21: no step changes the id or the organization id of a stored
\* principal: every item of the table is still there under the same id and
\* organization id after the step, no item of that id has another
\* organization id, and a step rewrites at most one item.
C21_IdentityImmutable ==
    [][ /\ \A i \in table :
            /\ \E j \in table' : j.id = i.id /\ j.organization_id = i.organization_id
            /\ \A j \in table' : j.id = i.id => j.organization_id = i.organization_id
            /\ \A j \in table' : j.id = i.id => j.name = i.name
        /\ Cardinality(table \ table') <= 1
      ]_vars

\* an update has rewritten the organization name, the display name and the
\* roles of the seeded principal s1
C21_Witness ==
    /\ pc[2] = "responded"
    /\ \E i \in table :
          /\ i.id = "s1" /\ i.organization_id = "g1"
          /\ i.organization_name = "bolt"
          /\ i.user_name = "n2"
          /\ i.roles = {"Admin", "Reader"}

\* --------------------------------------------------------------- C22
\* C22: in every reachable state every item of the table has at least one
\* role.
C22_RolesNonEmpty == \A i \in table : i.roles # {}

\* the table holds an item a signup has written, an item a create has
\* written and an item an update has rewritten
C22_Witness ==
    /\ \E i \in table : i.name = Absent /\ i.roles = {"Writer"}
    /\ \E i \in table : i.name = Absent /\ i.roles = {"Reader"}
    /\ \E i \in table : i.name # Absent /\ i.user_name # Absent

\* --------------------------------------------------------------- C23
\* C23: when a signup has built its User, the User has exactly the Writer
\* role and the organization id of a stored principal of that organization
\* name if there is one, and exactly the Admin role and an organization id
\* no stored principal has if there is none.
C23_SignupByOrganizationName ==
    [][ \A p \in Callers :
          (pc[p] = "idle" /\ pc'[p] = "put") =>
             LET u == draft'[p].user
                 owners == {i \in table : i.organization_name = u.organization_name}
             IN IF owners # {}
                THEN /\ u.roles = {"Writer"}
                     /\ u.organization_id \in {i.organization_id : i \in owners}
                ELSE /\ u.roles = {"Admin"}
                     /\ u.organization_id \notin {i.organization_id : i \in table}
      ]_vars

\* --------------------------------------------------------------- C25
\* C25: a login to which the identity provider reported
\* NotAuthorizedException is answered with status 401 and the error text of
\* AuthenticationFailed, and its invocation has not called get_user_by_id.
C25_WrongPasswordIs401 ==
    \A p \in Callers :
        (pc[p] = "responded" /\ "NotAuthorizedException" \in calls[p]) =>
            /\ http[p].kind = "response"
            /\ http[p].status = 401
            /\ http[p].error = LambdaText(LErr("AuthenticationFailed", <<>>))
            /\ "get_user_by_id" \notin calls[p]

\* --------------------------------------------------------------- C30
\* C30: every invocation that has ended has produced an HTTP response, not
\* a runtime error and not a panic, and the response's status is one of
\* 200, 400, 401, 403, 404, 409 and 500.
C30_AlwaysHttpResponse ==
    \A p \in Callers :
        pc[p] = "responded" =>
            /\ http[p].kind = "response"
            /\ http[p].status \in {200, 400, 401, 403, 404, 409, 500}

\* --------------------------------------------------------------- C24
\* C24: in the login process no two invocations for the same email have
\* both invoked calculate_hash: the hash of an email is computed by one
\* invocation and the others use the cached value.
C24_HashComputedOnce ==
    \A p, q \in Callers :
        (p # q /\ req[p].fn = "login" /\ req[q].fn = "login" /\ req[p].key = req[q].key) =>
            ~("calculate_hash" \in calls[p] /\ "calculate_hash" \in calls[q])

\* --------------------------------------------------------------- C26
\* C26: an invocation fetches the secrets from the secrets endpoint only
\* when the process's secrets cache holds none, and an invocation that has
\* fetched them leaves them in the secrets cache for the requests after it.
C26_SecretsFetchedOnce ==
    [][ \A p \in Callers :
          ("get_secret_value" \in calls'[p] /\ "get_secret_value" \notin calls[p]) =>
              /\ ~secrets_cache["login"]
              /\ pc'[p] = "resolve" => secrets_cache'["login"]
      ]_vars

\* --------------------------------------------------------------- C27
\* the entry the last set of a key has written is still due: it has not
\* expired and clear_all has not been called since
Due(c, k) ==
    /\ issued[c][k].some
    /\ ~issued[c][k].cleared
    /\ clock < issued[c][k].at + TTLOf(c)

\* C27 as stated: for every key of every cache, get returns absent or a
\* value that has been set for the key, and it returns the value of the last
\* set as long as the entry has not expired and has not been invalidated.
C27_ReadYourWrite ==
    \A c \in CacheNames, k \in CacheKeys :
        /\ moka_get(c, k).some => moka_get(c, k).v \in issued[c][k].vals
        /\ Due(c, k) => moka_get(c, k) = [some |-> TRUE, v |-> issued[c][k].v]

\* C27, amended: for every key of every cache, get returns absent or a value
\* that has been set for the key, and it returns the value of the last set
\* as long as the entry has not expired, has not been invalidated and has
\* not been evicted by a cache over its capacity.
C27_ReadYourWriteUnlessEvicted ==
    \A c \in CacheNames, k \in CacheKeys :
        /\ moka_get(c, k).some => moka_get(c, k).v \in issued[c][k].vals
        /\ (Due(c, k) /\ ~issued[c][k].evicted) =>
               moka_get(c, k) = [some |-> TRUE, v |-> issued[c][k].v]

\* a get has returned v2 for a key that was set to v1 and then to v2, while
\* the other key of that cache has been set too
C27_Witness ==
    /\ got.op = "get"
    /\ got.res = [some |-> TRUE, v |-> "v2"]
    /\ issued[got.cache][got.key].vals = {"v1", "v2"}
    /\ \E j \in CacheKeys \ {got.key} : issued[got.cache][j].some

\* --------------------------------------------------------------- C28
\* the time to live the claim gives each cache
OwnTTL(c) ==
    CASE c \in {"user", "permission", "org_users"} -> CacheTTL
      [] c = "hash" -> HashTTL
      [] c = "secrets" -> SecretsTTL

\* C28: in each of the five caches an entry set at time t and not set again
\* is absent at every time later than t plus the time to live of its cache,
\* however few entries the cache holds, and is present before that time
\* unless it has been invalidated or evicted.
C28_EntryLivesItsOwnTTL ==
    \A c \in CacheNames, k \in CacheKeys :
        issued[c][k].some =>
            /\ clock > issued[c][k].at + OwnTTL(c) => ~moka_get(c, k).some
            /\ (/\ clock < issued[c][k].at + OwnTTL(c)
                /\ ~issued[c][k].cleared
                /\ ~issued[c][k].evicted) => moka_get(c, k).some

\* a get of the hash cache, which holds one entry and is below its
\* capacity, has found the entry absent after the hash TTL
C28_Witness ==
    /\ got.op = "get" /\ got.cache = "hash"
    /\ ~got.res.some
    /\ kv["hash"][got.key].some
    /\ ~issued["hash"][got.key].cleared
    /\ clock > issued["hash"][got.key].at + HashTTL
    /\ Cardinality({j \in CacheKeys : kv["hash"][j].some}) < CapacityOf("hash")

\* --------------------------------------------------------------- C29
\* C29: the step of clear_all leaves no entry in any of the five caches; a
\* key that was set before the call and not since is absent, and a key set
\* after the call is present until it expires or is evicted.
C29_Inv ==
    \A c \in CacheNames, k \in CacheKeys :
        issued[c][k].some =>
            /\ issued[c][k].cleared => ~moka_get(c, k).some
            /\ (Due(c, k) /\ ~issued[c][k].evicted) =>
                  moka_get(c, k) = [some |-> TRUE, v |-> issued[c][k].v]

C29_Step ==
    got'.op = "clear_all" =>
        \A c \in CacheNames, k \in CacheKeys : ~kv'[c][k].some

C29_ClearAllEmpties == []C29_Inv /\ [][C29_Step]_vars

\* after clear_all a get of a key set before the call, within its time to
\* live, has returned absent, while a key set after the call is present
C29_Witness ==
    /\ got.op = "get"
    /\ ~got.res.some
    /\ issued[got.cache][got.key].cleared
    /\ clock < issued[got.cache][got.key].at + TTLOf(got.cache)
    /\ \E c \in CacheNames, k \in CacheKeys :
          /\ issued[c][k].some /\ ~issued[c][k].cleared
          /\ moka_get(c, k).some

\* --------------------------------------------------------------- C31
\* C31: every response with a status other than 200 has a body that is a
\* JSON object of the fields "error" and "message".
C31_ErrorBodyShape ==
    \A p \in Callers :
        (pc[p] = "responded" /\ http[p].kind = "response" /\ http[p].status # 200) =>
            http[p].body = "json_error_message"

\* --------------------------------------------------------------- C32
\* every item of the table belongs to an account the provider holds
C32_Inv == \A i \in table : i.id \in accounts

\* no step takes an account away; an invocation of signup or create that
\* ends without a 200 response writes no item, and the account it has made
\* stays at the provider with no item of its id in the table
C32_Step ==
    /\ accounts \subseteq accounts'
    /\ \A p \in Callers :
          LET made == (accounts' \ accounts) \cup
                      (IF pc[p] = "put" THEN {draft[p].user.id} ELSE {})
          IN (pc'[p] = "responded" /\ pc[p] # "responded" /\ http'[p].status # 200
              /\ made # {}) =>
                  /\ table' = table
                  /\ made \subseteq accounts'
                  /\ \A i \in table' : i.id \notin made

\* C32: signup and create make the provider account before the store
\* record; when a later step fails no provider delete is issued and the
\* account is left without a store record; no store record exists for a
\* principal that has no provider account.
C32_NoCompensatingRollback == []C32_Inv /\ [][C32_Step]_vars

\* a signup has failed at its store write: the runtime has the error, the
\* account is at the provider and the table has no item of its id
C32_Witness ==
    /\ pc[1] = "responded"
    /\ http[1] = RuntimeError
    /\ \E a \in accounts : \A i \in table : i.id # a

\* --------------------------------------------------------------- C33
\* C33: validate_token returns Claims only for a token whose exp is later
\* than the time of the verification.
C33_ExpStrictlyInFuture ==
    [][\A p \in Callers :
          (Returns(p) /\ res'[p].kind = "Ok") => tok'[p].exp > clock]_vars

\* --------------------------------------------------------------- C34
\* C34: validate_token returns an error for every token whose header
\* algorithm is not RS256, and returns Claims only for a token whose header
\* has a key id, whose key id is in the key set get_jwks returned, and whose
\* signature was made with the key of that key id.
C34_AlgorithmKeyIdSignature ==
    [][\A p \in Callers :
          Returns(p) =>
             /\ tok'[p].alg # "RS256" => res'[p].kind = "Err"
             /\ res'[p].kind = "Ok" =>
                   /\ tok'[p].alg = "RS256"
                   /\ tok'[p].kid # "nokid"
                   /\ tok'[p].kid \in KeysOf(cache'[auth[p]].jwks)
                   /\ tok'[p].sig = tok'[p].kid]_vars

\* a call has returned Claims, and a call with an HS256 token and a call
\* with a forged signature have returned errors
C34_Witness ==
    \E p \in Callers :
        /\ pc[p] = "done"
        /\ res[p].kind = "Ok"
        /\ \E q \in Callers \ {p} :
              /\ pc[q] = "done"
              /\ res[q].kind = "Err"
              /\ tok[q].sig = "forged"

\* --------------------------------------------------------------- C35
\* C35: an invocation that has called get_user_by_id for an id without a
\* record has not panicked, and the get endpoint has answered it with 404.
C35_MissingRecordIsTypedError ==
    \A p \in Callers :
        (/\ pc[p] = "responded"
         /\ req[p].fn \in {"validate", "get_user"}
         /\ "get_user_by_id" \in calls[p]
         /\ store[req[p].key] = NoUser) =>
            /\ http[p].kind # "panic"
            /\ req[p].fn = "get_user" =>
                  (http[p].kind = "response" /\ http[p].status = 404)


\* C36: every key set get_jwks returns successfully came from a successful
\* fetch of the issuer's key-set URL; in particular the set returned from
\* the cache is never the constructor's placeholder
C36_ReturnedSetWasFetched ==
    [][\A p \in Callers :
          (pc[p] = "fresh" /\ pc'[p] = "done") =>
              cache[auth[p]].jwks.kind = "jwks"]_vars


\* C37: store round trip: the item create_user puts (the only write that
\* brings a new id into the table) is read back by get_user_by_id for its
\* id, with the display name, organization and roles that were written
C37_CreateThenGetRoundTrip ==
    [][\A i \in table' \ table :
          (i.id \notin {j.id : j \in table}) =>
              \E u \in Readable(table', i.id) :
                  /\ u.name = i.user_name
                  /\ u.organization_id = i.organization_id
                  /\ u.organization_name = i.organization_name
                  /\ u.roles = i.roles]_vars


\* C38: under any interleaving of signups, the principals of one
\* organization name have one organization id, and at most one of them has
\* the Admin role of the founder
C38_OneOrganizationOneFounder ==
    \A i \in table, j \in table :
        (i.organization_name = j.organization_name) =>
            /\ i.organization_id = j.organization_id
            /\ ("Admin" \in i.roles /\ "Admin" \in j.roles) => i = j


\* C39: update-principal never removes a role: after an update that carries
\* the role list rs, the principal's item holds its previous roles and rs
\* (its previous roles alone when rs is empty), and no step of any handler
\* takes a role from an item
C39_UpdateOnlyAddsRoles ==
    [][(table' # table) =>
         /\ \A p \in Callers \ {1}, id \in {i.id : i \in table}, rs \in RequestRoles :
               (/\ pc[p] = "idle"
                /\ pc'[p] = "responded"
                /\ \E name \in RequestNames, oname \in OrgNames,
                      out \in {"error", "none", "item"} :
                      UpdateUser(p, id, name, oname, rs, out)) =>
                   \A i \in Readable(table, id) :
                      \E j \in table' :
                         /\ <<j.id, j.organization_id>> = <<i.id, i.organization_id>>
                         /\ j.roles = i.roles \cup rs
         /\ \A i \in table, j \in table' :
               (<<j.id, j.organization_id>> = <<i.id, i.organization_id>>) =>
                   /\ i.roles \subseteq j.roles
                   /\ \A x \in {READ, WRITE, CREATE, DELETE, UPDATE} :
                         has_permission(i.roles, x) => has_permission(j.roles, x)]_vars

\* an update has added Reader to the roles of an Admin
C39_Witness ==
    \E p \in Callers, i \in table :
        /\ pc[p] = "responded"
        /\ http[p] = Success
        /\ i.user_name \in RequestNames
        /\ i.name # Absent
        /\ i.roles = {"Admin", "Reader"}


\* C40: the cached permission check decides as the uncached one: the check
\* of a delete or create request lets the request through exactly when
\* has_permission of the action asked holds of the record the request has
\* read from the table, and answers 403 otherwise
C40_CachedEqualsUncached ==
    [][\A p \in Callers :
          (pc[p] = "check" /\ pc'[p] # "check") =>
              LET uncached == has_permission(req[p].user.roles, Asked(req[p].fn))
              IN /\ (pc'[p] = "provider") <=> uncached
                 /\ (pc'[p] = "responded" /\ http'[p].status = 403) <=> ~uncached]_vars

====
